---- MODULE Spec2Model ----
(***************************************************************************)
(* Model of the turn-aggregation and evaluation pipeline of                *)
(* ddjukic/convergent_assignment (src/server).                             *)
(*                                                                         *)
(*   ConversationAggregator   src/server/conversation_aggregator.py        *)
(*   GeminiCoach              src/server/coach.py                          *)
(*   SessionLogger            src/server/session_logger.py                 *)
(*   run_bot event handlers   src/server/bot.py                            *)
(*                                                                         *)
(* Text is a sequence of one-character strings, so that str.strip,         *)
(* str.split and str.join are computed as Python computes them.  Python's  *)
(* None is the one-element sequence None.                                  *)
(***************************************************************************)
EXTENDS Integers, Sequences, FiniteSets, TLC

\* ------------------------------------------------------------------ bounds
\* number of customer prompts the aggregator accepts in one run
MaxPrompts == 2
\* number of representative fragments the aggregator accepts in one run
MaxFrags == 2

\* -------------------------------------------------------------------- text
None == <<"None">>

\* whitespace characters of str.strip() / str.split()
WS == {" ", "\t"}

\* Python truthiness of an Optional[str] / a list
Truthy(x) == x # None /\ x # <<>>

RECURSIVE LStrip(_)
LStrip(s) == IF s # <<>> /\ Head(s) \in WS THEN LStrip(Tail(s)) ELSE s

RECURSIVE RStrip(_)
RStrip(s) ==
  IF s # <<>> /\ s[Len(s)] \in WS THEN RStrip(SubSeq(s, 1, Len(s) - 1)) ELSE s

\* str.strip()
Strip(s) == RStrip(LStrip(s))

RECURSIVE FirstWord(_)
FirstWord(s) ==
  IF s = <<>> \/ Head(s) \in WS THEN <<>> ELSE <<Head(s)>> \o FirstWord(Tail(s))

\* str.split() without arguments: the maximal runs of non-whitespace
RECURSIVE Split(_)
Split(s) ==
  LET t == LStrip(s)
  IN  IF t = <<>> THEN <<>>
      ELSE LET w == FirstWord(t)
           IN  <<w>> \o Split(SubSeq(t, Len(w) + 1, Len(t)))

\* sep.join(xs)
RECURSIVE Join(_, _)
Join(sep, xs) ==
  IF xs = <<>> THEN <<>>
  ELSE IF Len(xs) = 1 THEN xs[1]
  ELSE xs[1] \o sep \o Join(sep, Tail(xs))

\* the message contents handed to add_message: empty, whitespace only,
\* surrounded by whitespace, and with an inner run of whitespace
Contents ==
  { <<>>,
    <<" ", "\t">>,
    <<" ", "a", " ">>,
    <<"b", " ", "\t", "b">> }

Roles == {"assistant", "user", "system"}

\* --------------------------------------------------------------- variables
VARIABLES
  pending_customer_prompt,  \* Optional[str]
  pending_rep_fragments,    \* List[str]
  completed_turns,          \* List[ConversationTurn]
  turn_count,               \* _turn_count
  ret,                      \* what the last aggregator call returned
  lastOp,                   \* the last aggregator call and its arguments
  promptSeq,                \* history: prompts stored so far
  pendingId,                \* history: which stored prompt is pending (0: none)
  turnIds,                  \* history: the stored prompt each turn was built from
  superseded                \* history: stored prompts overwritten unanswered

aggVars ==
  <<pending_customer_prompt, pending_rep_fragments, completed_turns, turn_count,
    ret, lastOp, promptSeq, pendingId, turnIds, superseded>>

\* GeminiCoach and the ConversationState it evaluates into
VARIABLES
  api_key,                      \* self._api_key is set
  model_ready,                  \* self._model is not None
  prompts_ok,                   \* the prompts repository holds what the
                                \* evaluation prompt is built from
  last_customer_message,        \* state.last_customer_message
  last_evaluated_rep_response,  \* state.last_evaluated_rep_response
  turn_index,                   \* state.turn_index
  evaluations,                  \* state.evaluations
  inflight,                     \* evaluate_turn calls awaiting the oracle
  callSeq,                      \* history: evaluate_turn calls made so far
  lastCall,                     \* history: the last evaluate_turn call made
  evalRet,                      \* history: how an evaluate_turn call last ended
  oracleCalls                   \* history: oracle calls issued so far

evalVars ==
  <<api_key, model_ready, prompts_ok, last_customer_message,
    last_evaluated_rep_response, turn_index, evaluations, inflight, callSeq,
    lastCall, evalRet, oracleCalls>>

\* one application of _safe_json_extract within lines 264-286 of evaluate_turn
VARIABLES
  parse_text,   \* the text handed to it
  parse_ret     \* what came of it

parseVars == <<parse_text, parse_ret>>

\* SessionLogger and the files it writes
VARIABLES
  transcript,           \* self._transcript
  interim_transcript,   \* self._interim_transcript
  coach_turns,          \* self._coach_turns
  transcript_file,      \* what is on disk at self._transcript_path
  interim_file,         \* what is on disk at self._interim_transcript_path
  per_turn_file,        \* what is on disk at self._per_turn_path
  crashed,              \* the process died
  arrivals,             \* history: the append_transcript calls made, in order
  recOp                 \* history: the last SessionLogger call and how it ended

recVars ==
  <<transcript, interim_transcript, coach_turns, transcript_file, interim_file,
    per_turn_file, crashed, arrivals, recOp>>

\* the handlers of run_bot (bot.py)
VARIABLES
  running,    \* the handler that is executing, and where it is
  waiting,    \* the handlers suspended at the await of evaluate_turn
  events,     \* history: transcript events handed to the handlers so far
  recorded    \* history: the final events appended and flushed by line 240

pipeVars == <<running, waiting, events, recorded>>

\* on_client_disconnected (bot.py) and what it works with
VARIABLES
  assessment_prompt,   \* the "Session Assessment" prompt of the repository
  finalize,            \* history: the finalize steps begun, and how each ended
  session_eval_file,   \* what is on disk at self._session_eval_path
  cancelled,           \* task.cancel() was called
  assessment           \* history: the last generate_session_assessment call

discVars == <<assessment_prompt, finalize, session_eval_file, cancelled, assessment>>

\* the sessions of one server: every run_bot constructs its SessionLogger
VARIABLES
  clock,     \* time.time(), in ticks
  loggers,   \* the SessionLoggers constructed so far
  disk       \* the files under server/.coach, by path

sessVars == <<clock, loggers, disk>>

\* the life of one GeminiCoach: its start(), ensure_started() and stop() calls
VARIABLES
  client,    \* self._model: 0 for None, else which GenerativeModel it is
  clients,   \* history: the GenerativeModel objects constructed so far
  coachOps   \* history: the start / ensure_started / stop calls, and how each ended

lifeVars == <<client, clients, coachOps>>

\* what one ConversationAggregator was given and has given back
VARIABLES
  heard,     \* history: the (role, content) of the add_message calls since
             \* the construction or the last reset(), in order
  emitted,   \* history: the pairs returned by add_message and
             \* flush_pending_turn since then, in order
  was_reset  \* history: reset() was called

histVars == <<heard, emitted, was_reset>>

vars == <<aggVars, evalVars, parseVars, recVars, pipeVars, discVars, sessVars, lifeVars, histVars>>

\* what a call on the aggregator, on the coach, on the logger cannot touch
besidesAggregator == <<evalVars, parseVars, recVars, pipeVars, discVars, sessVars, lifeVars, histVars>>
besidesCoach == <<aggVars, parseVars, recVars, pipeVars, discVars, sessVars, lifeVars, histVars>>
besidesLogger == <<aggVars, evalVars, parseVars, pipeVars, discVars, sessVars, lifeVars, histVars>>

\* ConversationTurn(customer_prompt, representative_responses)
ConversationTurn(prompt, fragments) ==
  [customer_prompt |-> prompt, representative_responses |-> fragments]

\* ConversationTurn.get_aggregated_representative_response
get_aggregated_representative_response(turn) ==
  IF turn.representative_responses = <<>> THEN <<>>
  ELSE Join(<<" ">>, Split(Join(<<" ">>, turn.representative_responses)))

AggInit ==
  /\ pending_customer_prompt = None
  /\ pending_rep_fragments = <<>>
  /\ completed_turns = <<>>
  /\ turn_count = 0
  /\ ret = None
  /\ lastOp = [op |-> "init", role |-> "", content |-> <<>>]
  /\ promptSeq = 0
  /\ pendingId = 0
  /\ turnIds = <<>>
  /\ superseded = {}

\* ------------------------------------------------------------ add_message
\* line 83: if not content or not content.strip()
IsRejectedNoStrip(content) == content = <<>>
IsRejected(content) == content = <<>> \/ Strip(content) = <<>>

\* line 89: if self.pending_customer_prompt and self.pending_rep_fragments
AddCompletesPromptOnly(prompt, fragments) == Truthy(prompt)
AddCompletes(prompt, fragments) == Truthy(prompt) /\ Truthy(fragments)

\* lines 102, 155: self.completed_turns.append(turn)
\* (StoreLatestTurn: the list holding the newest turn alone)
StoreLatestTurn(turns, turn) == <<turn>>
StoreTurn(turns, turn) == Append(turns, turn)

\* lines 91-92: the aggregated representative response
AddAggregatedNoCollapse(fragments) == Join(<<" ">>, fragments)
AddAggregated(fragments) == Join(<<" ">>, Split(Join(<<" ">>, fragments)))

\* lines 109, 116: self.pending_customer_prompt = content.strip()
NewPromptUnstripped(content) == content
NewPrompt(content) == Strip(content)

\* line 121: if not self.pending_customer_prompt
RepDroppedNever(prompt) == FALSE
RepDropped(prompt) == ~Truthy(prompt)

\* history: the fragments accepted so far, pending or in a completed turn
RECURSIVE FragmentsIn(_)
FragmentsIn(turns) ==
  IF turns = <<>> THEN 0
  ELSE Len(Head(turns).representative_responses) + FragmentsIn(Tail(turns))

FragmentsAccepted == Len(pending_rep_fragments) + FragmentsIn(completed_turns)

\* line 126: self.pending_rep_fragments.append(content.strip())
\* (KeepNewestFragment: the newest fragment replacing the earlier ones)
KeepNewestFragment(fragments, content) == <<Strip(content)>>
AppendFragment(fragments, content) == Append(fragments, Strip(content))

\* lines 85, 112, 118, 123, 128, 132: what add_message returns
AddReturns(prompt, fragments, role, content) ==
  IF ~IsRejected(content) /\ role = "assistant" /\ AddCompletes(prompt, fragments)
  THEN <<prompt, AddAggregated(fragments)>>
  ELSE None

AddOp(role, content) == [op |-> "add_message", role |-> role, content |-> content]

\* lines 83-85
AddRejectedDo(role, content) ==
  /\ IsRejected(content)
  /\ ret' = AddReturns(pending_customer_prompt, pending_rep_fragments, role, content)
  /\ lastOp' = AddOp(role, content)
  /\ UNCHANGED <<pending_customer_prompt, pending_rep_fragments, completed_turns,
                 turn_count, promptSeq, pendingId, turnIds, superseded>>

AddRejected(role, content) ==
  /\ AddRejectedDo(role, content)
  /\ UNCHANGED besidesAggregator

\* lines 87-112
AddCustomerCompletesDo(role, content) ==
  /\ ~IsRejected(content)
  /\ role = "assistant"
  /\ AddCompletes(pending_customer_prompt, pending_rep_fragments)
  /\ turn_count' = turn_count + 1
  /\ completed_turns' =
       StoreTurn(completed_turns,
                 ConversationTurn(pending_customer_prompt, pending_rep_fragments))
  /\ pending_customer_prompt' = NewPrompt(content)
  /\ pending_rep_fragments' = <<>>
  /\ ret' = AddReturns(pending_customer_prompt, pending_rep_fragments, role, content)
  /\ lastOp' = AddOp(role, content)
  /\ promptSeq' = promptSeq + 1
  /\ pendingId' = promptSeq + 1
  /\ turnIds' = Append(turnIds, pendingId)
  /\ UNCHANGED superseded

AddCustomerCompletes(role, content) ==
  /\ promptSeq < MaxPrompts
  /\ AddCustomerCompletesDo(role, content)
  /\ UNCHANGED besidesAggregator

\* lines 113-118
AddCustomerStartsDo(role, content) ==
  /\ ~IsRejected(content)
  /\ role = "assistant"
  /\ ~AddCompletes(pending_customer_prompt, pending_rep_fragments)
  /\ pending_customer_prompt' = NewPrompt(content)
  /\ pending_rep_fragments' = <<>>
  /\ ret' = AddReturns(pending_customer_prompt, pending_rep_fragments, role, content)
  /\ lastOp' = AddOp(role, content)
  /\ promptSeq' = promptSeq + 1
  /\ pendingId' = promptSeq + 1
  /\ superseded' = IF pendingId = 0 THEN superseded ELSE superseded \cup {pendingId}
  /\ UNCHANGED <<completed_turns, turn_count, turnIds>>

AddCustomerStarts(role, content) ==
  /\ promptSeq < MaxPrompts
  /\ AddCustomerStartsDo(role, content)
  /\ UNCHANGED besidesAggregator

\* lines 120-123
AddRepDroppedDo(role, content) ==
  /\ ~IsRejected(content)
  /\ role = "user"
  /\ RepDropped(pending_customer_prompt)
  /\ ret' = AddReturns(pending_customer_prompt, pending_rep_fragments, role, content)
  /\ lastOp' = AddOp(role, content)
  /\ UNCHANGED <<pending_customer_prompt, pending_rep_fragments, completed_turns,
                 turn_count, promptSeq, pendingId, turnIds, superseded>>

AddRepDropped(role, content) ==
  /\ AddRepDroppedDo(role, content)
  /\ UNCHANGED besidesAggregator

\* lines 125-128
AddRepFragmentDo(role, content) ==
  /\ ~IsRejected(content)
  /\ role = "user"
  /\ ~RepDropped(pending_customer_prompt)
  /\ pending_rep_fragments' = AppendFragment(pending_rep_fragments, content)
  /\ ret' = AddReturns(pending_customer_prompt, pending_rep_fragments, role, content)
  /\ lastOp' = AddOp(role, content)
  /\ UNCHANGED <<pending_customer_prompt, completed_turns, turn_count,
                 promptSeq, pendingId, turnIds, superseded>>

AddRepFragment(role, content) ==
  /\ FragmentsAccepted < MaxFrags
  /\ AddRepFragmentDo(role, content)
  /\ UNCHANGED besidesAggregator

\* lines 130-132
AddUnknownRoleDo(role, content) ==
  /\ ~IsRejected(content)
  /\ role \notin {"assistant", "user"}
  /\ ret' = AddReturns(pending_customer_prompt, pending_rep_fragments, role, content)
  /\ lastOp' = AddOp(role, content)
  /\ UNCHANGED <<pending_customer_prompt, pending_rep_fragments, completed_turns,
                 turn_count, promptSeq, pendingId, turnIds, superseded>>

AddUnknownRole(role, content) ==
  /\ AddUnknownRoleDo(role, content)
  /\ UNCHANGED besidesAggregator

\* ConversationAggregator.add_message(role, content)
add_message ==
  \E role \in Roles, content \in Contents :
    \/ AddRejected(role, content)
    \/ AddCustomerCompletes(role, content)
    \/ AddCustomerStarts(role, content)
    \/ AddRepDropped(role, content)
    \/ AddRepFragment(role, content)
    \/ AddUnknownRole(role, content)

\* ConversationAggregator.add_message(role, content), whatever the bounds
add_message_do(role, content) ==
  \/ AddRejectedDo(role, content)
  \/ AddCustomerCompletesDo(role, content)
  \/ AddCustomerStartsDo(role, content)
  \/ AddRepDroppedDo(role, content)
  \/ AddRepFragmentDo(role, content)
  \/ AddUnknownRoleDo(role, content)

\* ----------------------------------------------------- flush_pending_turn
\* line 139: if self.pending_customer_prompt and self.pending_rep_fragments
FlushCompletesPromptOnly(prompt, fragments) == Truthy(prompt)
FlushCompletes(prompt, fragments) == Truthy(prompt) /\ Truthy(fragments)

\* lines 140-141
FlushAggregatedNoCollapse(fragments) == Join(<<" ">>, fragments)
FlushAggregated(fragments) == Join(<<" ">>, Split(Join(<<" ">>, fragments)))

\* lines 161, 162: what flush_pending_turn returns
FlushReturns(prompt, fragments) ==
  IF FlushCompletes(prompt, fragments)
  THEN <<prompt, FlushAggregated(fragments)>>
  ELSE None

FlushOp == [op |-> "flush_pending_turn", role |-> "", content |-> <<>>]

\* lines 139-161
FlushTurnDo ==
  /\ FlushCompletes(pending_customer_prompt, pending_rep_fragments)
  /\ turn_count' = turn_count + 1
  /\ completed_turns' =
       StoreTurn(completed_turns,
                 ConversationTurn(pending_customer_prompt, pending_rep_fragments))
  /\ pending_customer_prompt' = None
  /\ pending_rep_fragments' = <<>>
  /\ ret' = FlushReturns(pending_customer_prompt, pending_rep_fragments)
  /\ lastOp' = FlushOp
  /\ pendingId' = 0
  /\ turnIds' = Append(turnIds, pendingId)
  /\ UNCHANGED <<promptSeq, superseded>>

FlushTurn ==
  /\ FlushTurnDo
  /\ UNCHANGED besidesAggregator

\* line 162
FlushNothingDo ==
  /\ ~FlushCompletes(pending_customer_prompt, pending_rep_fragments)
  /\ ret' = FlushReturns(pending_customer_prompt, pending_rep_fragments)
  /\ lastOp' = FlushOp
  /\ UNCHANGED <<pending_customer_prompt, pending_rep_fragments, completed_turns,
                 turn_count, promptSeq, pendingId, turnIds, superseded>>

FlushNothing ==
  /\ FlushNothingDo
  /\ UNCHANGED besidesAggregator

\* ConversationAggregator.flush_pending_turn()
flush_pending_turn == FlushTurn \/ FlushNothing

\* ------------------------------------------- reset and the history of calls
\* number of add_message calls between two resets
MaxHeard == 5

\* the messages handed to add_message in the runs that keep the history
HeardMessages ==
  { <<r, c>> : r \in {"assistant", "user"},
               c \in {<<" ", "a", " ">>, <<"b", " ", "\t", "b">>} }
    \cup { <<"user", <<>>>>, <<"system", <<" ", "a", " ">>>> }

HistInit ==
  /\ heard = <<>>
  /\ emitted = <<>>
  /\ was_reset = FALSE

\* what a call that returned r adds to the pairs returned so far
Emit(pairs, r) == IF r = None THEN pairs ELSE Append(pairs, r)

\* add_message(role, content), the call and its return kept in the history
HistAdd(role, content) ==
  /\ Len(heard) < MaxHeard
  /\ lastOp # FlushOp
  /\ add_message_do(role, content)
  /\ heard' = Append(heard, <<role, content>>)
  /\ emitted' = Emit(emitted, ret')
  /\ UNCHANGED was_reset
  /\ UNCHANGED <<evalVars, parseVars, recVars, pipeVars, discVars, sessVars, lifeVars>>

\* flush_pending_turn() at the end of the conversation
HistFlush ==
  /\ lastOp # FlushOp
  /\ (FlushTurnDo \/ FlushNothingDo)
  /\ emitted' = Emit(emitted, ret')
  /\ UNCHANGED <<heard, was_reset>>
  /\ UNCHANGED <<evalVars, parseVars, recVars, pipeVars, discVars, sessVars, lifeVars>>

ResetOp == [op |-> "reset", role |-> "", content |-> <<>>]

\* line 186: self._turn_count = 0
\* (TurnCountKept: reset() leaving the counter as it was)
TurnCountKept(n) == n
TurnCountReset(n) == 0

\* lines 181-187: reset()
reset ==
  /\ pending_customer_prompt' = None
  /\ pending_rep_fragments' = <<>>
  /\ completed_turns' = <<>>
  /\ turn_count' = TurnCountReset(turn_count)
  /\ ret' = None
  /\ lastOp' = ResetOp
  /\ promptSeq' = 0
  /\ pendingId' = 0
  /\ turnIds' = <<>>
  /\ superseded' = {}
  /\ heard' = <<>>
  /\ emitted' = <<>>
  /\ was_reset' = TRUE
  /\ UNCHANGED <<evalVars, parseVars, recVars, pipeVars, discVars, sessVars, lifeVars>>

\* ============================================================ GeminiCoach
\* number of evaluate_turn calls in one run
MaxEvalCalls == 2
\* number of evaluate_turn calls awaiting the oracle at once
MaxInFlight == 2

\* ------------------------------------------------------ _safe_json_extract
\* The JSON texts of the model: numbers, strings without escapes, and objects
\* of at most one member, nested; whitespace is allowed where JSON allows it.
\* The texts of the model hold no comma, bracket, backslash, sign or letter
\* of true, false, null at the start of a value, so this is what json.loads
\* makes of them.  A parsed value is held as its canonical text, so a dict
\* starts with "{" and a str with a quote.
Digits == {"0", "8"}

Quote == "\""

NoParse == [ok |-> FALSE, val |-> None, rest |-> <<>>]

RECURSIVE DigitRun(_)
DigitRun(s) ==
  IF s = <<>> \/ Head(s) \notin Digits THEN <<>> ELSE <<Head(s)>> \o DigitRun(Tail(s))

\* str.find(ch) and str.rfind(ch), counted from 1; 0 when ch is not in text
Find(text, ch) ==
  IF \E i \in 1..Len(text) : text[i] = ch
  THEN CHOOSE i \in 1..Len(text) :
         text[i] = ch /\ \A j \in 1..(i - 1) : text[j] # ch
  ELSE 0

RFind(text, ch) ==
  IF \E i \in 1..Len(text) : text[i] = ch
  THEN CHOOSE i \in 1..Len(text) :
         text[i] = ch /\ \A j \in (i + 1)..Len(text) : text[j] # ch
  ELSE 0

\* the string decoder: t starts with a quote; the string ends at the next
\* quote and holds no control character
ParseString(t) ==
  LET close == Find(Tail(t), Quote)
      body == SubSeq(t, 2, close)
  IN  IF close = 0 \/ (\E i \in 1..Len(body) : body[i] = "\t")
      THEN NoParse
      ELSE [ok |-> TRUE, val |-> <<Quote>> \o body \o <<Quote>>,
            rest |-> SubSeq(t, close + 2, Len(t))]

\* the decoder of json.loads: one value at the start of s, and what follows
RECURSIVE ParseValue(_)
ParseValue(s) ==
  LET t == LStrip(s)
  IN  IF t = <<>> THEN NoParse
      ELSE IF Head(t) \in Digits THEN
        LET n == DigitRun(t)
        IN  IF Len(n) > 1 /\ Head(n) = "0"
            THEN [ok |-> TRUE, val |-> <<"0">>, rest |-> Tail(t)]
            ELSE [ok |-> TRUE, val |-> n, rest |-> SubSeq(t, Len(n) + 1, Len(t))]
      ELSE IF Head(t) = Quote THEN ParseString(t)
      ELSE IF Head(t) = "{" THEN
        LET u == LStrip(Tail(t))
        IN  IF u # <<>> /\ Head(u) = "}"
            THEN [ok |-> TRUE, val |-> <<"{", "}">>, rest |-> Tail(u)]
            ELSE IF u # <<>> /\ Head(u) = Quote /\ ParseString(u).ok
            THEN LET key == ParseString(u)
                     c == LStrip(key.rest)
                 IN  IF c # <<>> /\ Head(c) = ":"
                     THEN LET v == ParseValue(Tail(c))
                              e == LStrip(v.rest)
                          IN  IF v.ok /\ e # <<>> /\ Head(e) = "}"
                              THEN [ok |-> TRUE,
                                    val |-> <<"{">> \o key.val \o <<":">>
                                              \o v.val \o <<"}">>,
                                    rest |-> Tail(e)]
                              ELSE NoParse
                     ELSE NoParse
            ELSE NoParse
      ELSE NoParse

\* json.loads(text): the value, or a failure (the exception)
json_loads(text) ==
  LET r == ParseValue(text)
  IN  IF r.ok /\ LStrip(r.rest) = <<>> THEN r ELSE NoParse

\* _safe_json_extract(text)
safe_json_extract_whole_only(text) ==
  IF text # <<>> /\ json_loads(text).ok THEN json_loads(text).val ELSE None
safe_json_extract(text) ==
  IF text = <<>> THEN None
  ELSE IF json_loads(text).ok THEN json_loads(text).val
  ELSE LET start == Find(text, "{")
           end == RFind(text, "}")
       IN  IF start # 0 /\ end # 0 /\ end > start
           THEN LET frag == json_loads(SubSeq(text, start, end))
                IN  IF frag.ok THEN frag.val ELSE None
           ELSE None

\* Python truthiness of a parsed JSON value (line 283: if parsed)
RECURSIVE AllZero(_)
AllZero(s) == s = <<>> \/ (Head(s) = "0" /\ AllZero(Tail(s)))

ParsedTruthy(parsed) ==
  /\ parsed # None
  /\ parsed # <<"{", "}">>
  /\ parsed # <<Quote, Quote>>
  /\ ~(Head(parsed) \in Digits /\ AllZero(parsed))

\* whether a parsed value is a dict, which alone has the .get of line 284
IsDict(parsed) == parsed # None /\ Head(parsed) = "{"

\* -------------------------------------------------------------- the oracle
\* line 290
TimeoutText ==
  <<"T", "i", "m", "e", "o", "u", "t">>

\* line 262
SafetyText ==
  <<"R", "e", "s", "p", "o", "n", "s", "e", " ", "b", "l", "o", "c", "k",
    "e", "d", " ", "b", "y", " ", "s", "a", "f", "e", "t", "y", " ", "f",
    "i", "l", "t", "e", "r", "s">>

\* str(e) of an exception raised by the oracle call
OracleErrorText ==
  <<"o", "r", "a", "c", "l", "e", " ", "e", "r", "r", "o", "r">>

\* str(e) of the AttributeError of self._model.generate_content on None
NotReadyText ==
  <<"'", "N", "o", "n", "e", "T", "y", "p", "e", "'", " ", "o", "b", "j",
    "e", "c", "t", " ", "h", "a", "s", " ", "n", "o", " ", "a", "t", "t",
    "r", "i", "b", "u", "t", "e", " ", "'", "g", "e", "n", "e", "r", "a",
    "t", "e", "_", "c", "o", "n", "t", "e", "n", "t", "'">>

\* str(e) of the AttributeError of parsed.get on a value that is no dict
NoGetText ==
  <<"o", "b", "j", "e", "c", "t", " ", "h", "a", "s", " ", "n", "o", " ",
    "a", "t", "t", "r", "i", "b", "u", "t", "e", " ", "'", "g", "e", "t",
    "'">>

\* response.text of the oracle: a JSON object, the object inside commentary,
\* text without braces, a JSON number that is falsy, one that is truthy
OracleTexts ==
  { <<"{", "\"", "k", "\"", ":", "8", "}">>,
    <<"x", " ", "{", "\"", "k", "\"", ":", "8", "}", " ", "x">>,
    <<"x">>,
    <<"0">>,
    <<"8">> }

\* what the awaited oracle call does: raises asyncio.TimeoutError, raises
\* another exception, answers with a candidate whose finish_reason is SAFETY,
\* answers without candidates, or answers with text
OracleOutcomes ==
  { [kind |-> k, text |-> <<>>] : k \in {"timeout", "error", "safety", "empty"} }
    \cup { [kind |-> "text", text |-> t] : t \in OracleTexts }

\* the (customer_prompt, representative_response) pairs handed to evaluate_turn
EvalPairs ==
  { <<<<"a">>, <<"a">>>>, <<<<"a">>, <<"b">>>>, <<<<"b">>, <<"a">>>> }

\* TurnEvaluation
TurnEvaluation(n, cp, rr, raw, parsed) ==
  [turn_number |-> n, customer_message |-> cp, representative_response |-> rr,
   raw_text |-> raw, parsed |-> parsed]

NoEvaluation == TurnEvaluation(0, None, None, None, None)

\* how a call ended: it returned a TurnEvaluation ("result"), returned None
\* ("none"), raised ("raised"), or has not ended yet ("pending"); and what
\* its oracle call did ("none": there was no oracle call)
Ended(id, kind, value, oracle) ==
  [call |-> id, kind |-> kind, value |-> value, oracle |-> oracle]

\* lines 60-67: a fresh ConversationState, no evaluate_turn call made
ConversationStateInit ==
  /\ last_customer_message = None
  /\ last_evaluated_rep_response = None
  /\ turn_index = 0
  /\ evaluations = <<>>
  /\ inflight = {}
  /\ callSeq = 0
  /\ lastCall = [id |-> 0, customer_prompt |-> None,
                 representative_response |-> None, debounced |-> FALSE]
  /\ evalRet = Ended(0, "pending", NoEvaluation, "none")
  /\ oracleCalls = 0

\* lines 81-85: a GeminiCoach as constructed, and a fresh ConversationState
EvalInit ==
  /\ api_key \in BOOLEAN
  /\ model_ready = FALSE
  /\ prompts_ok \in BOOLEAN
  /\ ConversationStateInit

\* ------------------------------------------------------------ start / stop
\* lines 87-94: start() with the key set
StartOkDo ==
  /\ api_key
  /\ model_ready' = TRUE
  /\ UNCHANGED <<api_key, prompts_ok, last_customer_message,
                 last_evaluated_rep_response, turn_index, evaluations, inflight,
                 callSeq, lastCall, evalRet, oracleCalls>>

StartOk ==
  /\ StartOkDo
  /\ UNCHANGED besidesCoach

\* lines 103-106
\* (stopKeepsModel: a stop() that leaves self._model bound)
stopKeepsModel == UNCHANGED evalVars
stopDo ==
  /\ model_ready' = FALSE
  /\ UNCHANGED <<api_key, prompts_ok, last_customer_message,
                 last_evaluated_rep_response, turn_index, evaluations, inflight,
                 callSeq, lastCall, evalRet, oracleCalls>>

stop ==
  /\ stopDo
  /\ UNCHANGED besidesCoach

\* ------------------------------------------- the calls of a coach's life
MaxCoachOps == 4

\* history: one start / ensure_started / stop call and how it ended
CoachOp(op, ending) == [op |-> op, ending |-> ending]

\* lines 81-85: self._model = None, nothing constructed, nothing called
LifeInit ==
  /\ client = 0
  /\ clients = 0
  /\ coachOps = <<>>

\* lines 87-94: start() constructs a GenerativeModel and binds self._model
\* to it, or raises RuntimeError without the key
StartDo ==
  IF api_key
  THEN /\ StartOkDo
       /\ clients' = clients + 1
       /\ client' = clients + 1
  ELSE /\ UNCHANGED evalVars
       /\ UNCHANGED <<client, clients>>

StartEnding == IF api_key THEN "returned" ELSE "raised"

\* GeminiCoach.start()
start ==
  /\ Len(coachOps) < MaxCoachOps
  /\ StartDo
  /\ coachOps' = Append(coachOps, CoachOp("start", StartEnding))
  /\ UNCHANGED <<aggVars, parseVars, recVars, pipeVars, discVars, sessVars, histVars>>

\* line 100: if not self.is_ready()
\* (EnsureStartsAlways: start() is called whether ready or not)
EnsureStartsAlways(ready) == TRUE
EnsureStarts(ready) == ~ready

\* GeminiCoach.ensure_started()
ensure_started ==
  /\ Len(coachOps) < MaxCoachOps
  /\ IF EnsureStarts(model_ready)
     THEN /\ StartDo
          /\ coachOps' = Append(coachOps, CoachOp("ensure_started", StartEnding))
     ELSE /\ UNCHANGED evalVars
          /\ UNCHANGED <<client, clients>>
          /\ coachOps' = Append(coachOps, CoachOp("ensure_started", "returned"))
  /\ UNCHANGED <<aggVars, parseVars, recVars, pipeVars, discVars, sessVars, histVars>>

\* lines 103-106: GeminiCoach.stop(), self._model = None
CoachStop ==
  /\ Len(coachOps) < MaxCoachOps
  /\ stopDo
  /\ client' = 0
  /\ UNCHANGED clients
  /\ coachOps' = Append(coachOps, CoachOp("stop", "returned"))
  /\ UNCHANGED <<aggVars, parseVars, recVars, pipeVars, discVars, sessVars, histVars>>

\* ----------------------------------------------------------- evaluate_turn
\* lines 213-216: the debounce test
\* (DebouncedNever: no call is taken for a repetition)
DebouncedNever(lastCp, lastRr, cp, rr) == FALSE
Debounced(lastCp, lastRr, cp, rr) == lastRr = rr /\ lastCp = cp

\* line 220: state.turn_index += 1
NextTurnIndexSame(i) == i
NextTurnIndex(i) == i + 1

\* lines 288-291: the result on asyncio.TimeoutError
OnTimeoutAsError == [raw_text |-> OracleErrorText, parsed |-> None]
OnTimeout == [raw_text |-> TimeoutText, parsed |-> None]

\* lines 292-295: the result on any other exception
OnError(text) == [raw_text |-> text, parsed |-> None]

\* lines 256-268: raw_text of a response of the oracle
ResponseRawTextUnfiltered(outcome) ==
  IF outcome.kind = "empty" THEN <<>> ELSE outcome.text
ResponseRawText(outcome) ==
  CASE outcome.kind = "safety" -> SafetyText
    [] outcome.kind = "empty" -> <<>>
    [] OTHER -> outcome.text

\* lines 255-286: the result on a response of the oracle
OnResponse(outcome) ==
  LET raw_text == ResponseRawText(outcome)
      parsed == safe_json_extract(raw_text)
  IN  IF ParsedTruthy(parsed) /\ ~IsDict(parsed)
      THEN OnError(NoGetText)
      ELSE [raw_text |-> raw_text, parsed |-> parsed]

\* lines 234-295: raw_text and parsed for what the oracle call did
Outcome(outcome) ==
  CASE outcome.kind = "timeout" -> OnTimeout
    [] outcome.kind = "error" -> OnError(OracleErrorText)
    [] OTHER -> OnResponse(outcome)

Call(id, cp, rr, debounced) ==
  [id |-> id, customer_prompt |-> cp, representative_response |-> rr,
   debounced |-> debounced]

\* lines 213-218: the pair is the last pair recorded
EvalDebouncedDo(cp, rr) ==
  /\ Debounced(last_customer_message, last_evaluated_rep_response, cp, rr)
  /\ callSeq' = callSeq + 1
  /\ lastCall' = Call(callSeq + 1, cp, rr, TRUE)
  /\ evalRet' = Ended(callSeq + 1, "none", NoEvaluation, "none")
  /\ UNCHANGED <<api_key, model_ready, prompts_ok, last_customer_message,
                 last_evaluated_rep_response, turn_index, evaluations, inflight,
                 oracleCalls>>

EvalDebounced(cp, rr) ==
  /\ callSeq < MaxEvalCalls
  /\ EvalDebouncedDo(cp, rr)
  /\ UNCHANGED besidesCoach

\* lines 220-225: the call is accepted and _build_evaluation_prompt raises
\* (lines 122-125: no coach prompt, and coach_main_system_prompt raises
\* KeyError, prompts_loader.py lines 65-68); nothing catches it
EvalBuildRaisesDo(cp, rr) ==
  /\ ~Debounced(last_customer_message, last_evaluated_rep_response, cp, rr)
  /\ ~prompts_ok
  /\ turn_index' = NextTurnIndex(turn_index)
  /\ last_customer_message' = cp
  /\ last_evaluated_rep_response' = rr
  /\ callSeq' = callSeq + 1
  /\ lastCall' = Call(callSeq + 1, cp, rr, FALSE)
  /\ evalRet' = Ended(callSeq + 1, "raised", NoEvaluation, "none")
  /\ UNCHANGED <<api_key, model_ready, prompts_ok, evaluations, inflight,
                 oracleCalls>>

EvalBuildRaises(cp, rr) ==
  /\ callSeq < MaxEvalCalls
  /\ EvalBuildRaisesDo(cp, rr)
  /\ UNCHANGED besidesCoach

\* lines 220-306 with self._model None: line 238 raises AttributeError inside
\* the try, before anything is awaited
EvalNotReadyDo(cp, rr) ==
  /\ ~Debounced(last_customer_message, last_evaluated_rep_response, cp, rr)
  /\ prompts_ok
  /\ ~model_ready
  /\ turn_index' = NextTurnIndex(turn_index)
  /\ last_customer_message' = cp
  /\ last_evaluated_rep_response' = rr
  /\ callSeq' = callSeq + 1
  /\ lastCall' = Call(callSeq + 1, cp, rr, FALSE)
  /\ LET r == OnError(NotReadyText)
         evaluation == TurnEvaluation(NextTurnIndex(turn_index), cp, rr,
                                      r.raw_text, r.parsed)
     IN  /\ evaluations' = Append(evaluations, evaluation)
         /\ evalRet' = Ended(callSeq + 1, "result", evaluation, "none")
  /\ UNCHANGED <<api_key, model_ready, prompts_ok, inflight, oracleCalls>>

EvalNotReady(cp, rr) ==
  /\ callSeq < MaxEvalCalls
  /\ EvalNotReadyDo(cp, rr)
  /\ UNCHANGED besidesCoach

\* lines 221-222: the pair is stored as the last pair when the call is
\* accepted, before the oracle is called
\* (KeepLastPair: the pair stored only by a call that got an evaluation)
KeepLastPair(last, text) == last
StoreLastPair(last, text) == text

\* lines 220-253: the call is accepted, the oracle call is issued and awaited
EvalAwaitDo(cp, rr) ==
  /\ ~Debounced(last_customer_message, last_evaluated_rep_response, cp, rr)
  /\ prompts_ok
  /\ model_ready
  /\ turn_index' = NextTurnIndex(turn_index)
  /\ last_customer_message' = StoreLastPair(last_customer_message, cp)
  /\ last_evaluated_rep_response' = StoreLastPair(last_evaluated_rep_response, rr)
  /\ callSeq' = callSeq + 1
  /\ lastCall' = Call(callSeq + 1, cp, rr, FALSE)
  /\ oracleCalls' = oracleCalls + 1
  /\ inflight' = inflight \cup {Call(callSeq + 1, cp, rr, FALSE)}
  /\ evalRet' = Ended(callSeq + 1, "pending", NoEvaluation, "none")
  /\ UNCHANGED <<api_key, model_ready, prompts_ok, evaluations>>

EvalAwait(cp, rr) ==
  /\ callSeq < MaxEvalCalls
  /\ Cardinality(inflight) < MaxInFlight
  /\ EvalAwaitDo(cp, rr)
  /\ UNCHANGED besidesCoach

\* lines 253-306: the awaited oracle call ends and the call returns; line 298
\* reads state.turn_index as it is now
EvalResumeDo(call, outcome) ==
  /\ call \in inflight
  /\ inflight' = inflight \ {call}
  /\ LET r == Outcome(outcome)
         evaluation == TurnEvaluation(turn_index, call.customer_prompt,
                                      call.representative_response,
                                      r.raw_text, r.parsed)
     IN  /\ evaluations' = Append(evaluations, evaluation)
         /\ evalRet' = Ended(call.id, "result", evaluation, outcome.kind)
  /\ UNCHANGED <<api_key, model_ready, prompts_ok, last_customer_message,
                 last_evaluated_rep_response, turn_index, callSeq, lastCall,
                 oracleCalls>>

EvalResume(call, outcome) ==
  /\ EvalResumeDo(call, outcome)
  /\ UNCHANGED besidesCoach

\* lines 236-253 and 288-291: asyncio.wait_for(..., timeout=10.0) ends the
\* wait of a call whose oracle call has not answered
\* (EvalWaitsOn: the oracle call awaited without a timeout)
EvalWaitsOn(call) == FALSE /\ EvalResume(call, [kind |-> "timeout", text |-> <<>>])
EvalTimesOut(call) == EvalResume(call, [kind |-> "timeout", text |-> <<>>])

\* lines 205-253: evaluate_turn is called and runs up to its return, its
\* raise, or the await of the oracle call
EvalCalled ==
  \E pair \in EvalPairs :
    \/ EvalDebounced(pair[1], pair[2])
    \/ EvalBuildRaises(pair[1], pair[2])
    \/ EvalNotReady(pair[1], pair[2])
    \/ EvalAwait(pair[1], pair[2])

\* lines 253-306: an awaited oracle call ends and its evaluate_turn returns
EvalReturns ==
  \E call \in inflight, outcome \in OracleOutcomes : EvalResume(call, outcome)

\* GeminiCoach.evaluate_turn(state, customer_prompt, representative_response)
evaluate_turn == EvalCalled \/ EvalReturns

\* ------------------------------------------- the parsing of an oracle text
\* length of the oracle texts that are parsed
MaxTextLen == 5

\* the characters the oracle texts are made of
TextChars == {"{", "}", Quote, ":", "8", "x", " "}

\* the example of spec section 8, and the object it holds
SureText ==
  <<"S", "u", "r", "e", "!", " ", "H", "e", "r", "e", " ", "i", "s", " ",
    "t", "h", "e", " ", "J", "S", "O", "N", ":", " ",
    "{", Quote, "t", "u", "r", "n", "_", "q", "u", "a", "l", "i", "t", "y",
    "_", "s", "c", "o", "r", "e", Quote, ":", " ", "8", "}",
    " ", "T", "h", "a", "n", "k", "s", ".">>

SureObject ==
  <<"{", Quote, "t", "u", "r", "n", "_", "q", "u", "a", "l", "i", "t", "y",
    "_", "s", "c", "o", "r", "e", Quote, ":", "8", "}">>

\* response.text: every text of at most MaxTextLen characters, the example,
\* an object nested in an object, and two objects side by side in commentary
ParseTexts ==
  UNION { [1..n -> TextChars] : n \in 0..MaxTextLen }
    \cup { SureText,
           <<"{", Quote, "k", Quote, ":", "{", Quote, "k", Quote, ":", "8", "}", "}">>,
           <<"x", "{", "}", " ", "{", "}", "x">> }

NotParsed == [called |-> FALSE, parsed |-> None, raw_text |-> None, result |-> None]

\* no text is being parsed
ParseIdle ==
  /\ parse_text = None
  /\ parse_ret = NotParsed

\* lines 264-286 on a response with this text: _safe_json_extract(raw_text)
\* at line 273, and the raw_text and parsed the try block ends with
ParseOracleText ==
  /\ ~parse_ret.called
  /\ parse_text # None
  /\ LET r == OnResponse([kind |-> "text", text |-> parse_text])
     IN  parse_ret' = [called |-> TRUE,
                       parsed |-> safe_json_extract(parse_text),
                       raw_text |-> r.raw_text,
                       result |-> r.parsed]
  /\ UNCHANGED parse_text
  /\ UNCHANGED <<aggVars, evalVars, recVars, pipeVars, discVars, sessVars, lifeVars, histVars>>

\* ========================================================== SessionLogger
\* number of SessionLogger calls in one run
MaxAppends == 3

\* TranscriptEntry; ts_ms and ts are the arrival number of the call
TranscriptEntry(ts, role, content) ==
  [ts |-> ts, role |-> role, content |-> content]

\* lines 92-95: {**asdict(entry), "is_interim": is_interim}
InterimEntryUnflagged(entry, is_interim) ==
  [ts |-> entry.ts, role |-> entry.role, content |-> entry.content,
   is_interim |-> FALSE]
InterimEntry(entry, is_interim) ==
  [ts |-> entry.ts, role |-> entry.role, content |-> entry.content,
   is_interim |-> is_interim]

\* lines 107-116: the per-turn record
CoachTurn(turn, customer, representative, evaluation) ==
  [turn |-> turn,
   interaction |-> [customer |-> customer, representative |-> representative],
   coaching |-> evaluation]

\* what is on disk at a path: nothing, the JSON array of a list, or text
\* that is not a complete JSON array (an empty or truncated file)
Absent == [state |-> "absent", entries |-> <<>>]
Complete(list) == [state |-> "complete", entries |-> list]
Torn == [state |-> "torn", entries |-> <<>>]

\* what a file write does: it succeeds; open() raises and the file is as it
\* was; the writing raises after open(path, "w") emptied the file; the
\* process dies after open(path, "w") emptied the file
IoOutcomes == {"ok", "open_error", "write_error", "crash"}

\* lines 120-136: with open(path, "w") as f: json.dump(list, f)
\* (FlushNewestOnly: an appending write of the newest entry alone)
FlushNewestOnly(file, list, io) ==
  CASE io = "ok" -> Complete(IF list = <<>> THEN <<>> ELSE <<list[Len(list)]>>)
    [] io = "open_error" -> file
    [] OTHER -> Torn
Flush(file, list, io) ==
  CASE io = "ok" -> Complete(list)
    [] io = "open_error" -> file
    [] OTHER -> Torn

\* how a call ends with this io outcome of its last file write
Ending(io) ==
  CASE io = "ok" -> "returned"
    [] io = "crash" -> "crashed"
    [] OTHER -> "raised"

\* history: one append_transcript call
Arrival(entry, is_interim) == [entry |-> entry, is_interim |-> is_interim]

RecOp(op, is_interim, ending) ==
  [op |-> op, is_interim |-> is_interim, ending |-> ending]

\* the (role, content) of the transcript events
RecMessages == {<<"user", <<"a">>>>, <<"assistant", <<"b">>>>}

RecInit ==
  /\ transcript = <<>>
  /\ interim_transcript = <<>>
  /\ coach_turns = <<>>
  /\ transcript_file = Absent
  /\ interim_file = Absent
  /\ per_turn_file = Absent
  /\ crashed = FALSE
  /\ arrivals = <<>>
  /\ recOp = RecOp("init", FALSE, "returned")

\* lines 78-96 with is_interim: the entry goes to the interim-inclusive log only
AppendInterimDo(role, content, io) ==
  LET entry == TranscriptEntry(Len(arrivals) + 1, role, content)
      log == Append(interim_transcript, InterimEntry(entry, TRUE))
  IN  /\ ~crashed
      /\ interim_transcript' = log
      /\ interim_file' = Flush(interim_file, log, io)
      /\ crashed' = (io = "crash")
      /\ arrivals' = Append(arrivals, Arrival(entry, TRUE))
      /\ recOp' = RecOp("append_transcript", TRUE, Ending(io))
      /\ UNCHANGED <<transcript, coach_turns, transcript_file, per_turn_file>>

\* lines 78-96 without is_interim, _flush_transcript succeeding: the entry
\* goes to the final log and then to the interim-inclusive log
AppendFinalDo(role, content, io) ==
  LET entry == TranscriptEntry(Len(arrivals) + 1, role, content)
      final == Append(transcript, entry)
      log == Append(interim_transcript, InterimEntry(entry, FALSE))
  IN  /\ ~crashed
      /\ transcript' = final
      /\ transcript_file' = Flush(transcript_file, final, "ok")
      /\ interim_transcript' = log
      /\ interim_file' = Flush(interim_file, log, io)
      /\ crashed' = (io = "crash")
      /\ arrivals' = Append(arrivals, Arrival(entry, FALSE))
      /\ recOp' = RecOp("append_transcript", FALSE, Ending(io))
      /\ UNCHANGED <<coach_turns, per_turn_file>>

\* lines 78-89 without is_interim, _flush_transcript failing: line 89 raises
\* (or the process dies there) and lines 92-96 are not reached
AppendFinalFailsDo(role, content, io) ==
  LET entry == TranscriptEntry(Len(arrivals) + 1, role, content)
      final == Append(transcript, entry)
  IN  /\ ~crashed
      /\ io # "ok"
      /\ transcript' = final
      /\ transcript_file' = Flush(transcript_file, final, io)
      /\ crashed' = (io = "crash")
      /\ arrivals' = Append(arrivals, Arrival(entry, FALSE))
      /\ recOp' = RecOp("append_transcript", FALSE, Ending(io))
      /\ UNCHANGED <<interim_transcript, coach_turns, interim_file, per_turn_file>>

\* lines 98-118
AppendCoachTurnDo(turn, customer, representative, evaluation, io) ==
  LET log == Append(coach_turns, CoachTurn(turn, customer, representative, evaluation))
  IN  /\ ~crashed
      /\ coach_turns' = log
      /\ per_turn_file' = Flush(per_turn_file, log, io)
      /\ crashed' = (io = "crash")
      /\ recOp' = RecOp("append_coach_turn", FALSE, Ending(io))
      /\ UNCHANGED <<transcript, interim_transcript, transcript_file,
                     interim_file, arrivals>>

\* lines 125-126
SnapshotTranscriptDo(io) ==
  /\ ~crashed
  /\ transcript_file' = Flush(transcript_file, transcript, io)
  /\ crashed' = (io = "crash")
  /\ recOp' = RecOp("snapshot_transcript", FALSE, Ending(io))
  /\ UNCHANGED <<transcript, interim_transcript, coach_turns, interim_file,
                 per_turn_file, arrivals>>

\* lines 149-151
get_transcript_with_interims ==
  [i \in 1..Len(interim_transcript) |->
     TranscriptEntry(interim_transcript[i].ts, interim_transcript[i].role,
                     interim_transcript[i].content)]
get_transcript_for_assessment == transcript

\* history: SessionLogger calls made so far
RecCalls == Len(arrivals) + Len(coach_turns)

AppendInterim(role, content, io) ==
  /\ RecCalls < MaxAppends
  /\ AppendInterimDo(role, content, io)
  /\ UNCHANGED besidesLogger

AppendFinal(role, content, io) ==
  /\ RecCalls < MaxAppends
  /\ AppendFinalDo(role, content, io)
  /\ UNCHANGED besidesLogger

AppendFinalFails(role, content, io) ==
  /\ RecCalls < MaxAppends
  /\ AppendFinalFailsDo(role, content, io)
  /\ UNCHANGED besidesLogger

\* SessionLogger.append_transcript(role, content, is_interim)
append_transcript ==
  \E m \in RecMessages, io \in IoOutcomes :
    \/ AppendInterim(m[1], m[2], io)
    \/ AppendFinal(m[1], m[2], io)
    \/ AppendFinalFails(m[1], m[2], io)

\* SessionLogger.append_coach_turn(turn_index, customer_message,
\* representative_response, evaluation)
append_coach_turn ==
  \E io \in IoOutcomes :
    /\ RecCalls < MaxAppends
    /\ AppendCoachTurnDo(Len(coach_turns) + 1, <<"b">>, <<"a">>,
                         <<"{", Quote, "k", Quote, ":", "8", "}">>, io)
    /\ UNCHANGED besidesLogger

\* SessionLogger.snapshot_transcript()
snapshot_transcript ==
  \E io \in IoOutcomes :
    /\ SnapshotTranscriptDo(io)
    /\ UNCHANGED besidesLogger

\* ================================================================ run_bot
\* number of transcript events (interim and final) in one run
MaxEvents == 5

\* the (role, content) of the messages of a transcript update
PipeMessages == {<<"assistant", <<"a">>>>, <<"user", <<"a">>>>}

\* frame.messages of a transcript update: one message, or two
Frames ==
  {<<m>> : m \in PipeMessages} \cup {<<m, n>> : m \in PipeMessages, n \in PipeMessages}

\* what the awaited oracle call does in the runs of the handlers
PipeOutcomes ==
  { [kind |-> "timeout", text |-> <<>>],
    [kind |-> "text", text |-> <<"{", Quote, "k", Quote, ":", "8", "}">>],
    [kind |-> "text", text |-> <<"x">>] }

\* what a file write of the handlers does when it does not succeed
PipeIoFailures == {"write_error"}

\* a handler: where it is (pc), the event it is at, the messages it has yet
\* to process (the first is the one it is at), the turn pair it evaluates and
\* the evaluate_turn call it made
Handler(pc, event, msgs, cp, rr, call) ==
  [pc |-> pc, event |-> event, msgs |-> msgs, cp |-> cp, rr |-> rr, call |-> call]

Idle == Handler("idle", 0, <<>>, None, None, 0)

\* line 234: the loop goes on to the next message, or the handler returns
NextMessage(h) ==
  IF Len(h.msgs) <= 1 THEN Idle
  ELSE Handler("record", h.event + 1, Tail(h.msgs), None, None, 0)

PipeInit ==
  /\ running = Idle
  /\ waiting = {}
  /\ events = 0
  /\ recorded = {}

\* lines 232-234: on_transcript_update is called with a frame
PipeFrame(frame) ==
  /\ running = Idle
  /\ ~crashed
  /\ events + Len(frame) <= MaxEvents
  /\ events' = events + Len(frame)
  /\ running' = Handler("record", events + 1, frame, None, None, 0)
  /\ UNCHANGED <<waiting, recorded>>
  /\ UNCHANGED <<aggVars, evalVars, parseVars, recVars, discVars, sessVars, lifeVars, histVars>>

\* lines 183-185: the interim frame is pushed on and the function returns
\* before original_process_frame, so that no transcript update is emitted
\* for it and nothing reaches the aggregator
\* (InterimIsProcessed: the frame goes on to original_process_frame and its
\* text to on_transcript_update's add_message)
InterimIsProcessed(text) == add_message_do("user", text)
InterimIsPassedOn(text) == UNCHANGED aggVars

\* lines 174-186: filtered_process_frame on an InterimTranscriptionFrame
\* with text
PipeInterim(text) ==
  /\ running = Idle
  /\ events < MaxEvents
  /\ AppendInterimDo("user", text, "ok")
  /\ InterimIsPassedOn(text)
  /\ events' = events + 1
  /\ UNCHANGED <<running, waiting, recorded>>
  /\ UNCHANGED <<evalVars, parseVars, discVars, sessVars, lifeVars, histVars>>

\* line 240, returning: the message is appended to both logs and flushed
PipeRecord ==
  /\ running.pc = "record"
  /\ AppendFinalDo(Head(running.msgs)[1], Head(running.msgs)[2], "ok")
  /\ recorded' = recorded \cup {running.event}
  /\ running' = [running EXCEPT !.pc = "aggregate"]
  /\ UNCHANGED <<waiting, events>>
  /\ UNCHANGED <<aggVars, evalVars, parseVars, discVars, sessVars, lifeVars, histVars>>

\* line 240 raising: nothing in the handler catches the exception, so the
\* handler ends there
AfterRecordRaisesGoesOn(h) == [h EXCEPT !.pc = "aggregate"]
AfterRecordRaises(h) == Idle

\* line 240, raising
PipeRecordRaises(io) ==
  /\ running.pc = "record"
  /\ AppendFinalFailsDo(Head(running.msgs)[1], Head(running.msgs)[2], io)
  /\ running' = AfterRecordRaises(running)
  /\ UNCHANGED <<waiting, events, recorded>>
  /\ UNCHANGED <<aggVars, evalVars, parseVars, discVars, sessVars, lifeVars, histVars>>

\* lines 243-248: the message is handed to the aggregator
PipeAggregate ==
  /\ running.pc = "aggregate"
  /\ add_message_do(Head(running.msgs)[1], Head(running.msgs)[2])
  /\ running' = IF ret' # None
                THEN [running EXCEPT !.pc = "ensure", !.cp = ret'[1], !.rr = ret'[2]]
                ELSE NextMessage(running)
  /\ UNCHANGED <<waiting, events, recorded>>
  /\ UNCHANGED <<evalVars, parseVars, recVars, discVars, sessVars, lifeVars, histVars>>

\* line 256, the coach being ready: ensure_started does nothing
PipeEnsureReady ==
  /\ running.pc = "ensure"
  /\ model_ready
  /\ running' = [running EXCEPT !.pc = "evaluate"]
  /\ UNCHANGED <<waiting, events, recorded>>
  /\ UNCHANGED <<aggVars, evalVars, parseVars, recVars, discVars, sessVars, lifeVars, histVars>>

\* line 256, the coach not being ready: ensure_started calls start()
PipeEnsureStarts ==
  /\ running.pc = "ensure"
  /\ ~model_ready
  /\ StartOkDo
  /\ running' = [running EXCEPT !.pc = "evaluate"]
  /\ UNCHANGED <<waiting, events, recorded>>
  /\ UNCHANGED <<aggVars, parseVars, recVars, discVars, sessVars, lifeVars, histVars>>

\* line 256, start() raising RuntimeError (coach.py line 90), caught at line 272
PipeEnsureRaises ==
  /\ running.pc = "ensure"
  /\ ~model_ready
  /\ ~api_key
  /\ running' = NextMessage(running)
  /\ UNCHANGED <<waiting, events, recorded>>
  /\ UNCHANGED <<aggVars, evalVars, parseVars, recVars, discVars, sessVars, lifeVars, histVars>>

\* lines 257-271: evaluate_turn returns None for a repeated pair
PipeEvaluateDebounced ==
  /\ running.pc = "evaluate"
  /\ EvalDebouncedDo(running.cp, running.rr)
  /\ running' = NextMessage(running)
  /\ UNCHANGED <<waiting, events, recorded>>
  /\ UNCHANGED <<aggVars, parseVars, recVars, discVars, sessVars, lifeVars, histVars>>

\* lines 257-273: evaluate_turn raises while it builds the prompt, caught at
\* line 272
PipeEvaluateRaises ==
  /\ running.pc = "evaluate"
  /\ EvalBuildRaisesDo(running.cp, running.rr)
  /\ running' = NextMessage(running)
  /\ UNCHANGED <<waiting, events, recorded>>
  /\ UNCHANGED <<aggVars, parseVars, recVars, discVars, sessVars, lifeVars, histVars>>

\* line 257: evaluate_turn issues the oracle call and the handler is
\* suspended until it ends
PipeEvaluateAwaits ==
  /\ running.pc = "evaluate"
  /\ EvalAwaitDo(running.cp, running.rr)
  /\ waiting' = waiting \cup {[running EXCEPT !.pc = "log", !.call = callSeq']}
  /\ running' = Idle
  /\ UNCHANGED <<events, recorded>>
  /\ UNCHANGED <<aggVars, parseVars, recVars, discVars, sessVars, lifeVars, histVars>>

\* line 257: the oracle call of a suspended handler ends, evaluate_turn
\* returns its result and the handler runs on
PipeResume(h, outcome) ==
  /\ running = Idle
  /\ ~crashed
  /\ h \in waiting
  /\ \E call \in inflight : call.id = h.call /\ EvalResumeDo(call, outcome)
  /\ waiting' = waiting \ {h}
  /\ running' = h
  /\ UNCHANGED <<events, recorded>>
  /\ UNCHANGED <<aggVars, parseVars, recVars, discVars, sessVars, lifeVars, histVars>>

\* line 262: if eval_res and eval_res.parsed
PipeSaves(parsed) == ParsedTruthy(parsed)

\* lines 262-269: the evaluation is appended to the per-turn log; an
\* exception of the file write is caught at line 272
PipeLog(io) ==
  /\ running.pc = "log"
  /\ PipeSaves(evalRet.value.parsed)
  /\ AppendCoachTurnDo(turn_index, running.cp, running.rr, evalRet.value.parsed, io)
  /\ running' = NextMessage(running)
  /\ UNCHANGED <<waiting, events, recorded>>
  /\ UNCHANGED <<aggVars, evalVars, parseVars, discVars, sessVars, lifeVars, histVars>>

\* lines 270-271: the evaluation is not appended to the per-turn log
PipeLogSkips ==
  /\ running.pc = "log"
  /\ ~PipeSaves(evalRet.value.parsed)
  /\ running' = NextMessage(running)
  /\ UNCHANGED <<waiting, events, recorded>>
  /\ UNCHANGED <<aggVars, evalVars, parseVars, recVars, discVars, sessVars, lifeVars, histVars>>

\* lines 235-273: the steps of a handler that was called
PipeSteps ==
  \/ PipeRecord
  \/ \E io \in PipeIoFailures : PipeRecordRaises(io)
  \/ PipeAggregate
  \/ PipeEnsureReady
  \/ PipeEnsureStarts
  \/ PipeEnsureRaises
  \/ PipeEvaluateDebounced
  \/ PipeEvaluateRaises
  \/ PipeEvaluateAwaits
  \/ \E h \in waiting, outcome \in PipeOutcomes : PipeResume(h, outcome)
  \/ \E io \in {"ok"} \cup PipeIoFailures : PipeLog(io)
  \/ PipeLogSkips

\* on_transcript_update(processor, frame)
on_transcript_update ==
  \/ \E frame \in Frames : PipeFrame(frame)
  \/ PipeSteps

\* filtered_process_frame(self, frame, direction)
filtered_process_frame == PipeInterim(<<"a">>)

\* ============================================ generate_session_assessment
\* coach.py line 413
NoTranscriptText ==
  <<"#", " ", "S", "e", "s", "s", "i", "o", "n", " ", "A", "s", "s", "e",
    "s", "s", "m", "e", "n", "t", "\n", "\n", "N", "o", " ", "t", "r", "a",
    "n", "s", "c", "r", "i", "p", "t", " ", "a", "v", "a", "i", "l", "a",
    "b", "l", "e", " ", "f", "o", "r", " ", "a", "s", "s", "e", "s", "s",
    "m", "e", "n", "t", ".">>

\* coach.py line 419
NoConfigurationText ==
  <<"#", " ", "S", "e", "s", "s", "i", "o", "n", " ", "A", "s", "s", "e",
    "s", "s", "m", "e", "n", "t", "\n", "\n", "A", "s", "s", "e", "s", "s",
    "m", "e", "n", "t", " ", "c", "o", "n", "f", "i", "g", "u", "r", "a",
    "t", "i", "o", "n", " ", "n", "o", "t", " ", "f", "o", "u", "n", "d",
    ".">>

\* coach.py line 493
NoResponseText ==
  <<"#", " ", "S", "e", "s", "s", "i", "o", "n", " ", "A", "s", "s", "e",
    "s", "s", "m", "e", "n", "t", "\n", "\n", "A", "s", "s", "e", "s", "s",
    "m", "e", "n", "t", " ", "g", "e", "n", "e", "r", "a", "t", "i", "o",
    "n", " ", "f", "a", "i", "l", "e", "d", " ", "-", " ", "n", "o", " ",
    "r", "e", "s", "p", "o", "n", "s", "e", " ", "r", "e", "c", "e", "i",
    "v", "e", "d", ".">>

\* coach.py line 497
AssessmentTimeoutText ==
  <<"#", " ", "S", "e", "s", "s", "i", "o", "n", " ", "A", "s", "s", "e",
    "s", "s", "m", "e", "n", "t", "\n", "\n", "A", "s", "s", "e", "s", "s",
    "m", "e", "n", "t", " ", "g", "e", "n", "e", "r", "a", "t", "i", "o",
    "n", " ", "t", "i", "m", "e", "d", " ", "o", "u", "t", ".">>

\* coach.py line 500
AssessmentFailedText ==
  <<"#", " ", "S", "e", "s", "s", "i", "o", "n", " ", "A", "s", "s", "e",
    "s", "s", "m", "e", "n", "t", "\n", "\n", "A", "s", "s", "e", "s", "s",
    "m", "e", "n", "t", " ", "g", "e", "n", "e", "r", "a", "t", "i", "o",
    "n", " ", "f", "a", "i", "l", "e", "d", ":", " ">>

\* a markdown assessment as the oracle writes it
AssessmentText == <<"#", " ", "8">>

\* str(e) of the ValueError of response.text on a blocked response
BlockedText == <<"b", "l", "o", "c", "k", "e", "d">>

\* the "Session Assessment" prompt of the repository: there is none; there
\* is one with an instruction and a list of achievement strings; there is
\* one whose content is not of that shape (lines 421-442 raise on it)
AssessmentPrompts == {"missing", "ok", "malformed"}

\* what the awaited oracle call of generate_session_assessment does
AssessmentOutcomes == {"timeout", "error", "blocked", "empty", "text"}

\* a call of generate_session_assessment ended by returning this markdown,
\* or by raising
Returned(markdown) == [ended |-> "returned", markdown |-> markdown]
Raised == [ended |-> "raised", markdown |-> None]

\* lines 412-466: what generate_session_assessment does before it awaits the
\* oracle; Awaiting: it goes on to the oracle call
Awaiting == [ended |-> "awaiting", markdown |-> None]
AssessmentBefore(transcript_entries, prompt) ==
  CASE transcript_entries = <<>> -> Returned(NoTranscriptText)
    [] prompt = "missing" -> Returned(NoConfigurationText)
    [] prompt = "malformed" -> Raised
    [] OTHER -> Awaiting

\* lines 468-500: what generate_session_assessment returns for what the
\* awaited oracle call did; with self._model None line 471 raises
\* AttributeError inside the try
AssessmentAfter(ready, outcome) ==
  CASE ~ready -> Returned(AssessmentFailedText \o NotReadyText)
    [] outcome = "timeout" -> Returned(AssessmentTimeoutText)
    [] outcome = "error" -> Returned(AssessmentFailedText \o OracleErrorText)
    [] outcome = "blocked" -> Returned(AssessmentFailedText \o BlockedText)
    [] outcome = "empty" -> Returned(NoResponseText)
    [] OTHER -> Returned(AssessmentText)

\* history: a generate_session_assessment call on these transcript entries,
\* how far it has come (r) and what its oracle call did
AssessmentCall(entries, r, oracle) ==
  [entries |-> entries, ended |-> r.ended, markdown |-> r.markdown,
   oracle |-> oracle]

NoAssessment == AssessmentCall(<<>>, [ended |-> "none", markdown |-> None], "none")

\* the transcripts handed to generate_session_assessment: every list of at
\* most MaxAppends final entries
RECURSIVE TranscriptsOf(_)
TranscriptsOf(n) ==
  IF n = 0 THEN {<<>>}
  ELSE LET shorter == TranscriptsOf(n - 1)
       IN  shorter \cup
             { Append(t, TranscriptEntry(Len(t) + 1, m[1], m[2])) :
                 t \in {s \in shorter : Len(s) = n - 1}, m \in RecMessages }

AssessTranscripts == TranscriptsOf(MaxAppends)

\* generate_session_assessment(state, transcript), up to its return, its
\* raise, or the await of its oracle call (lines 412-486)
GenerateAssessment(entries) ==
  /\ assessment.ended # "awaiting"
  /\ assessment' =
       LET before == AssessmentBefore(entries, assessment_prompt)
       IN  IF before = Awaiting /\ ~model_ready
           THEN AssessmentCall(entries, AssessmentAfter(FALSE, "none"), "none")
           ELSE AssessmentCall(entries, before, "none")
  /\ UNCHANGED <<assessment_prompt, finalize, session_eval_file, cancelled>>
  /\ UNCHANGED <<aggVars, evalVars, parseVars, recVars, pipeVars, sessVars, lifeVars, histVars>>

\* lines 469-500: the awaited oracle call ends and the call returns
AssessmentOracleEnds(outcome) ==
  /\ assessment.ended = "awaiting"
  /\ assessment' =
       AssessmentCall(assessment.entries, AssessmentAfter(TRUE, outcome), outcome)
  /\ UNCHANGED <<assessment_prompt, finalize, session_eval_file, cancelled>>
  /\ UNCHANGED <<aggVars, evalVars, parseVars, recVars, pipeVars, sessVars, lifeVars, histVars>>

\* GeminiCoach.generate_session_assessment(state, transcript)
generate_session_assessment ==
  \/ \E entries \in AssessTranscripts : GenerateAssessment(entries)
  \/ \E outcome \in AssessmentOutcomes : AssessmentOracleEnds(outcome)

\* ==================================================== on_client_disconnected
\* a finalize step and how it ended: "open" while it runs, "done" when it
\* finished, "raised" when it ended by an exception
Step(name, ending) == [step |-> name, ending |-> ending]

\* the step begun last has ended
Ends(steps, ending) == [steps EXCEPT ![Len(steps)].ending = ending]

\* the handler at a line of on_client_disconnected
Finalizer(pc, cp, rr, call) == Handler(pc, 0, <<>>, cp, rr, call)

DiscInit ==
  /\ finalize = <<>>
  /\ session_eval_file = Absent
  /\ cancelled = FALSE
  /\ assessment = NoAssessment

\* lines 280-285: flush_pending_turn returns the pending turn
DiscFlushTurn ==
  /\ running = Idle
  /\ finalize = <<>>
  /\ FlushTurnDo
  /\ running' = Finalizer("d_ensure", ret'[1], ret'[2], 0)
  /\ finalize' = <<Step("flush", "done"), Step("evaluate", "open")>>
  /\ UNCHANGED <<waiting, events, recorded>>
  /\ UNCHANGED <<assessment_prompt, session_eval_file, cancelled, assessment>>
  /\ UNCHANGED <<evalVars, parseVars, recVars, sessVars, lifeVars, histVars>>

\* lines 280-281: flush_pending_turn returns None
DiscFlushNothing ==
  /\ running = Idle
  /\ finalize = <<>>
  /\ FlushNothingDo
  /\ running' = Finalizer("d_snapshot", None, None, 0)
  /\ finalize' = <<Step("flush", "done")>>
  /\ UNCHANGED <<waiting, events, recorded>>
  /\ UNCHANGED <<assessment_prompt, session_eval_file, cancelled, assessment>>
  /\ UNCHANGED <<evalVars, parseVars, recVars, sessVars, lifeVars, histVars>>

\* line 288, the coach being ready
DiscEnsureReady ==
  /\ running.pc = "d_ensure"
  /\ model_ready
  /\ running' = [running EXCEPT !.pc = "d_evaluate"]
  /\ UNCHANGED <<waiting, events, recorded>>
  /\ UNCHANGED <<aggVars, evalVars, parseVars, recVars, discVars, sessVars, lifeVars, histVars>>

\* line 288, the coach not being ready: ensure_started calls start()
DiscEnsureStarts ==
  /\ running.pc = "d_ensure"
  /\ ~model_ready
  /\ StartOkDo
  /\ running' = [running EXCEPT !.pc = "d_evaluate"]
  /\ UNCHANGED <<waiting, events, recorded>>
  /\ UNCHANGED <<aggVars, parseVars, recVars, discVars, sessVars, lifeVars, histVars>>

\* line 288, start() raising RuntimeError (coach.py line 90), caught at
\* line 302
DiscEnsureRaises ==
  /\ running.pc = "d_ensure"
  /\ ~model_ready
  /\ ~api_key
  /\ running' = [running EXCEPT !.pc = "d_snapshot"]
  /\ finalize' = Ends(finalize, "raised")
  /\ UNCHANGED <<waiting, events, recorded>>
  /\ UNCHANGED <<assessment_prompt, session_eval_file, cancelled, assessment>>
  /\ UNCHANGED <<aggVars, evalVars, parseVars, recVars, sessVars, lifeVars, histVars>>

\* lines 289-294: evaluate_turn returns None for a repeated pair
DiscEvaluateDebounced ==
  /\ running.pc = "d_evaluate"
  /\ EvalDebouncedDo(running.cp, running.rr)
  /\ running' = [running EXCEPT !.pc = "d_snapshot"]
  /\ finalize' = Ends(finalize, "done")
  /\ UNCHANGED <<waiting, events, recorded>>
  /\ UNCHANGED <<assessment_prompt, session_eval_file, cancelled, assessment>>
  /\ UNCHANGED <<aggVars, parseVars, recVars, sessVars, lifeVars, histVars>>

\* lines 289-303: evaluate_turn raises while it builds the prompt, caught at
\* line 302
DiscEvaluateRaises ==
  /\ running.pc = "d_evaluate"
  /\ EvalBuildRaisesDo(running.cp, running.rr)
  /\ running' = [running EXCEPT !.pc = "d_snapshot"]
  /\ finalize' = Ends(finalize, "raised")
  /\ UNCHANGED <<waiting, events, recorded>>
  /\ UNCHANGED <<assessment_prompt, session_eval_file, cancelled, assessment>>
  /\ UNCHANGED <<aggVars, parseVars, recVars, sessVars, lifeVars, histVars>>

\* line 289: `await coach.evaluate_turn(...)`: the handler is suspended
\* until the call returns
\* (WhileFinalEvaluationRuns: the evaluation started as a task of its own
\* and the handler going on to line 306)
WhileFinalEvaluationRuns(h) == [h EXCEPT !.pc = "d_snapshot"]
WhileFinalEvaluationAwaits(h) == Idle

\* line 289: evaluate_turn issues the oracle call
DiscEvaluateAwaits ==
  /\ running.pc = "d_evaluate"
  /\ EvalAwaitDo(running.cp, running.rr)
  /\ waiting' = waiting \cup {[running EXCEPT !.pc = "d_log", !.call = callSeq']}
  /\ running' = WhileFinalEvaluationAwaits(running)
  /\ UNCHANGED <<events, recorded>>
  /\ UNCHANGED <<aggVars, parseVars, recVars, discVars, sessVars, lifeVars, histVars>>

\* lines 294-301: the evaluation is appended to the per-turn log; an
\* exception of the file write is caught at line 302
DiscLog(io) ==
  /\ running.pc = "d_log"
  /\ PipeSaves(evalRet.value.parsed)
  /\ AppendCoachTurnDo(turn_index, running.cp, running.rr, evalRet.value.parsed, io)
  /\ running' = [running EXCEPT !.pc = "d_snapshot"]
  /\ finalize' = Ends(finalize, IF io = "ok" THEN "done" ELSE "raised")
  /\ UNCHANGED <<waiting, events, recorded>>
  /\ UNCHANGED <<assessment_prompt, session_eval_file, cancelled, assessment>>
  /\ UNCHANGED <<aggVars, evalVars, parseVars, sessVars, lifeVars, histVars>>

\* line 294: the evaluation is not appended to the per-turn log
DiscLogSkips ==
  /\ running.pc = "d_log"
  /\ ~PipeSaves(evalRet.value.parsed)
  /\ running' = [running EXCEPT !.pc = "d_snapshot"]
  /\ finalize' = Ends(finalize, "done")
  /\ UNCHANGED <<waiting, events, recorded>>
  /\ UNCHANGED <<assessment_prompt, session_eval_file, cancelled, assessment>>
  /\ UNCHANGED <<aggVars, evalVars, parseVars, recVars, sessVars, lifeVars, histVars>>

\* lines 306-307: snapshot_transcript returns
DiscSnapshot ==
  /\ running.pc = "d_snapshot"
  /\ SnapshotTranscriptDo("ok")
  /\ running' = [running EXCEPT !.pc = "d_assess"]
  /\ finalize' = Append(finalize, Step("snapshot", "done"))
  /\ UNCHANGED <<waiting, events, recorded>>
  /\ UNCHANGED <<assessment_prompt, session_eval_file, cancelled, assessment>>
  /\ UNCHANGED <<aggVars, evalVars, parseVars, sessVars, lifeVars, histVars>>

\* line 306 raising: no except clause of the outer try (lines 278-331)
\* catches it, and its finally clause runs
\* (AfterSnapshotRaisesEscapes: the exception leaving the handler at once)
AfterSnapshotRaisesEscapes(h) == Idle
AfterSnapshotRaises(h) == [h EXCEPT !.pc = "d_cancel"]

\* line 306, raising
DiscSnapshotRaises(io) ==
  /\ running.pc = "d_snapshot"
  /\ io # "ok"
  /\ SnapshotTranscriptDo(io)
  /\ running' = AfterSnapshotRaises(running)
  /\ finalize' = Append(finalize, Step("snapshot", "raised"))
  /\ UNCHANGED <<waiting, events, recorded>>
  /\ UNCHANGED <<assessment_prompt, session_eval_file, cancelled, assessment>>
  /\ UNCHANGED <<aggVars, evalVars, parseVars, sessVars, lifeVars, histVars>>

\* lines 312-314 and 324-325: there is no transcript to assess
DiscAssessNothing ==
  /\ running.pc = "d_assess"
  /\ get_transcript_for_assessment = <<>>
  /\ running' = [running EXCEPT !.pc = "d_cancel"]
  /\ finalize' = Append(finalize, Step("assess", "done"))
  /\ UNCHANGED <<waiting, events, recorded>>
  /\ UNCHANGED <<assessment_prompt, session_eval_file, cancelled, assessment>>
  /\ UNCHANGED <<aggVars, evalVars, parseVars, recVars, sessVars, lifeVars, histVars>>

\* line 315, start() raising RuntimeError, caught at line 327
DiscAssessEnsureRaises ==
  /\ running.pc = "d_assess"
  /\ get_transcript_for_assessment # <<>>
  /\ ~model_ready
  /\ ~api_key
  /\ running' = [running EXCEPT !.pc = "d_cancel"]
  /\ finalize' = Append(finalize, Step("assess", "raised"))
  /\ UNCHANGED <<waiting, events, recorded>>
  /\ UNCHANGED <<assessment_prompt, session_eval_file, cancelled, assessment>>
  /\ UNCHANGED <<aggVars, evalVars, parseVars, recVars, sessVars, lifeVars, histVars>>

\* coach.py lines 99-101: ensure_started, start() not raising
EnsureStartedDo ==
  \/ model_ready /\ UNCHANGED evalVars
  \/ ~model_ready /\ StartOkDo

\* lines 315-322, generate_session_assessment returning before the oracle is
\* called: the fallback is written by write_session_eval
DiscAssessFallback(io) ==
  /\ running.pc = "d_assess"
  /\ get_transcript_for_assessment # <<>>
  /\ EnsureStartedDo
  /\ AssessmentBefore(get_transcript_for_assessment, assessment_prompt).ended = "returned"
  /\ session_eval_file' =
       Flush(session_eval_file,
             AssessmentBefore(get_transcript_for_assessment, assessment_prompt).markdown,
             io)
  /\ assessment' =
       AssessmentCall(get_transcript_for_assessment,
                      AssessmentBefore(get_transcript_for_assessment, assessment_prompt),
                      "none")
  /\ running' = [running EXCEPT !.pc = "d_cancel"]
  /\ finalize' = Append(finalize, Step("assess", IF io = "ok" THEN "done" ELSE "raised"))
  /\ UNCHANGED <<waiting, events, recorded>>
  /\ UNCHANGED <<assessment_prompt, cancelled>>
  /\ UNCHANGED <<aggVars, parseVars, recVars, sessVars, lifeVars, histVars>>

\* lines 315-328, generate_session_assessment raising before the oracle is
\* called (lines 421-442), caught at line 327
DiscAssessRaises ==
  /\ running.pc = "d_assess"
  /\ get_transcript_for_assessment # <<>>
  /\ EnsureStartedDo
  /\ AssessmentBefore(get_transcript_for_assessment, assessment_prompt).ended = "raised"
  /\ running' = [running EXCEPT !.pc = "d_cancel"]
  /\ finalize' = Append(finalize, Step("assess", "raised"))
  /\ UNCHANGED <<waiting, events, recorded>>
  /\ assessment' = AssessmentCall(get_transcript_for_assessment, Raised, "none")
  /\ UNCHANGED <<assessment_prompt, session_eval_file, cancelled>>
  /\ UNCHANGED <<aggVars, parseVars, recVars, sessVars, lifeVars, histVars>>

\* line 316: generate_session_assessment issues its oracle call and the
\* handler is suspended until it ends
DiscAssessAwaits ==
  /\ running.pc = "d_assess"
  /\ get_transcript_for_assessment # <<>>
  /\ EnsureStartedDo
  /\ AssessmentBefore(get_transcript_for_assessment, assessment_prompt).ended = "awaiting"
  /\ waiting' = waiting \cup {[running EXCEPT !.pc = "d_write", !.call = 0]}
  /\ running' = Idle
  /\ finalize' = Append(finalize, Step("assess", "open"))
  /\ UNCHANGED <<events, recorded>>
  /\ assessment' = AssessmentCall(get_transcript_for_assessment, Awaiting, "none")
  /\ UNCHANGED <<assessment_prompt, session_eval_file, cancelled>>
  /\ UNCHANGED <<aggVars, parseVars, recVars, sessVars, lifeVars, histVars>>

\* lines 316-323: the oracle call of generate_session_assessment ends, the
\* call returns its markdown and write_session_eval writes it; an exception
\* of the file write is caught at line 327
DiscAssessResume(h, outcome, io) ==
  /\ running = Idle
  /\ h \in waiting
  /\ h.pc = "d_write"
  /\ session_eval_file' =
       Flush(session_eval_file, AssessmentAfter(TRUE, outcome).markdown, io)
  /\ assessment' =
       AssessmentCall(assessment.entries, AssessmentAfter(TRUE, outcome), outcome)
  /\ waiting' = waiting \ {h}
  /\ running' = [h EXCEPT !.pc = "d_cancel"]
  /\ finalize' = Ends(finalize, IF io = "ok" THEN "done" ELSE "raised")
  /\ UNCHANGED <<events, recorded>>
  /\ UNCHANGED <<assessment_prompt, cancelled>>
  /\ UNCHANGED <<aggVars, evalVars, parseVars, recVars, sessVars, lifeVars, histVars>>

\* lines 330-331: finally: await task.cancel()
DiscCancel ==
  /\ running.pc = "d_cancel"
  /\ cancelled' = TRUE
  /\ running' = Idle
  /\ UNCHANGED <<waiting, events, recorded>>
  /\ UNCHANGED <<assessment_prompt, finalize, session_eval_file, assessment>>
  /\ UNCHANGED <<aggVars, evalVars, parseVars, recVars, sessVars, lifeVars, histVars>>

\* on_client_disconnected(transport, client)
on_client_disconnected ==
  \/ DiscFlushTurn
  \/ DiscFlushNothing
  \/ DiscEnsureReady
  \/ DiscEnsureStarts
  \/ DiscEnsureRaises
  \/ DiscEvaluateDebounced
  \/ DiscEvaluateRaises
  \/ DiscEvaluateAwaits
  \/ \E io \in {"ok"} \cup PipeIoFailures : DiscLog(io)
  \/ DiscLogSkips
  \/ DiscSnapshot
  \/ \E io \in PipeIoFailures : DiscSnapshotRaises(io)
  \/ DiscAssessNothing
  \/ DiscAssessEnsureRaises
  \/ \E io \in {"ok"} \cup PipeIoFailures : DiscAssessFallback(io)
  \/ DiscAssessRaises
  \/ DiscAssessAwaits
  \/ \E h \in waiting, outcome \in AssessmentOutcomes, io \in {"ok"} \cup PipeIoFailures :
       DiscAssessResume(h, outcome, io)
  \/ DiscCancel

\* coach.py lines 236-253 and 469-486: the timeout of asyncio.wait_for
\* ends the wait of a suspended handler
PipeTimesOut(h) == PipeResume(h, [kind |-> "timeout", text |-> <<>>])
DiscAssessTimesOut(h) == DiscAssessResume(h, "timeout", "ok")

\* ========================================================= the sessions
MaxSessions == 2
MaxClock == 3
MaxSessAppends == 1

\* the clock ticks this often in a second
TicksPerSecond == 2

\* the scenarios a session is run for
Scenarios == {"s1", "s2"}

\* session_logger.py lines 12-14: time.strftime("%H_%M_%S_%d_%m_%Y"), the
\* local time to the second
_now_str == clock \div TicksPerSecond

\* lines 51-56: the paths of a SessionLogger under server/.coach
TranscriptPath(stamp) == <<"transcripts", "transcript", stamp>>
InterimTranscriptPath(stamp) == <<"transcripts", "transcript_with_interims", stamp>>
PerTurnPath(stamp) == <<"feedback", "per_turn", stamp>>
SummaryPath(stamp, scenario) == <<"feedback", "summary", stamp, scenario>>
SessionEvalPath(stamp) == <<"session_evals", "session_eval", stamp>>

\* lines 35-60: SessionLogger(scenario), without a session_id
SessionLogger(scenario) ==
  LET stamp == _now_str
  IN  [_scenario |-> scenario,
       _session_id |-> stamp,
       _transcript_path |-> TranscriptPath(stamp),
       _interim_transcript_path |-> InterimTranscriptPath(stamp),
       _per_turn_path |-> PerTurnPath(stamp),
       _summary_path |-> SummaryPath(stamp, scenario),
       _session_eval_path |-> SessionEvalPath(stamp),
       _transcript |-> <<>>,
       _interim_transcript |-> <<>>]

\* the paths a SessionLogger writes to
PathsOf(l) ==
  {l._transcript_path, l._interim_transcript_path, l._per_turn_path,
   l._summary_path, l._session_eval_path}

\* open(path, "w") and the writing of this content
WriteFile(files, path, content) ==
  [q \in DOMAIN files \cup {path} |-> IF q = path THEN content ELSE files[q]]

SessInit ==
  /\ clock = 0
  /\ loggers = <<>>
  /\ disk = <<>>

\* time passes
Tick ==
  /\ clock < MaxClock
  /\ clock' = clock + 1
  /\ UNCHANGED <<loggers, disk>>
  /\ UNCHANGED <<aggVars, evalVars, parseVars, recVars, pipeVars, discVars, lifeVars, histVars>>

\* bot.py lines 158-159: run_bot constructs the recorder of its session
SessionStarts(scenario) ==
  /\ Len(loggers) < MaxSessions
  /\ loggers' = Append(loggers, SessionLogger(scenario))
  /\ UNCHANGED <<clock, disk>>
  /\ UNCHANGED <<aggVars, evalVars, parseVars, recVars, pipeVars, discVars, lifeVars, histVars>>

\* session_logger.py lines 78-96 and 120-131: session i records a final
\* transcript event and rewrites its two transcript files
SessionAppends(i, role, content) ==
  LET l == loggers[i]
      entry == TranscriptEntry(Len(l._interim_transcript) + 1, role, content)
      final == Append(l._transcript, entry)
      log == Append(l._interim_transcript, InterimEntry(entry, FALSE))
  IN  /\ Len(l._transcript) < MaxSessAppends
      /\ loggers' = [loggers EXCEPT ![i]._transcript = final,
                                    ![i]._interim_transcript = log]
      /\ disk' = WriteFile(WriteFile(disk, l._transcript_path, Complete(final)),
                           l._interim_transcript_path, Complete(log))
      /\ UNCHANGED clock
      /\ UNCHANGED <<aggVars, evalVars, parseVars, recVars, pipeVars, discVars, lifeVars, histVars>>

Init ==
  /\ AggInit
  /\ EvalInit
  /\ ParseIdle
  /\ RecInit
  /\ PipeInit
  /\ assessment_prompt = "ok"
  /\ DiscInit
  /\ SessInit
  /\ LifeInit
  /\ HistInit

AggNext == add_message \/ flush_pending_turn

\* the aggregator driven by any sequence of add_message / flush_pending_turn,
\* beside a coach that is never called
AggOnlyInit == Init /\ api_key /\ prompts_ok

AggSpec == AggOnlyInit /\ [][AggNext]_vars

EvalNext == StartOk \/ stop \/ evaluate_turn

\* the coach driven by any sequence of start, stop and evaluate_turn calls
\* on one ConversationState, calls overlapping while they await the oracle
EvalSpec == Init /\ [][EvalNext]_vars

\* evaluate_turn called when no earlier call is awaiting the oracle
EvalCalledInTurn == inflight = {} /\ EvalCalled

EvalSeqNext == StartOk \/ stop \/ EvalCalledInTurn \/ EvalReturns

\* the coach driven by start, stop and evaluate_turn calls that do not overlap
EvalSeqSpec == Init /\ [][EvalSeqNext]_vars

\* EvalSpec with the timer of asyncio.wait_for: the event loop runs on, so
\* the timeout of a call that awaits the oracle does come
EvalLiveSpec ==
  EvalSpec /\ \A i \in 1..MaxEvalCalls :
                WF_vars(\E call \in inflight : call.id = i /\ EvalTimesOut(call))

\* an oracle text is drawn and parsed
ParseInit ==
  /\ AggInit
  /\ EvalInit
  /\ api_key
  /\ prompts_ok
  /\ parse_text \in ParseTexts
  /\ parse_ret = NotParsed
  /\ RecInit
  /\ PipeInit
  /\ assessment_prompt = "ok"
  /\ DiscInit
  /\ SessInit
  /\ LifeInit
  /\ HistInit

ParseNext == ParseOracleText

\* run_bot after lines 147-167: the coach was constructed and its eager
\* start (lines 153-156) has set the model or has raised and was put off
RunBotInit ==
  /\ AggInit
  /\ api_key \in BOOLEAN
  /\ prompts_ok \in BOOLEAN
  /\ model_ready \in {api_key, FALSE}
  /\ ConversationStateInit
  /\ ParseIdle
  /\ RecInit
  /\ PipeInit
  /\ assessment_prompt = "ok"
  /\ DiscInit
  /\ SessInit
  /\ LifeInit
  /\ HistInit

PipeNext == on_transcript_update \/ filtered_process_frame

\* run_bot after lines 147-167, with any "Session Assessment" prompt
DiscRunBotInit ==
  /\ AggInit
  /\ api_key \in BOOLEAN
  /\ prompts_ok \in BOOLEAN
  /\ model_ready \in {api_key, FALSE}
  /\ ConversationStateInit
  /\ ParseIdle
  /\ RecInit
  /\ PipeInit
  /\ assessment_prompt \in AssessmentPrompts
  /\ DiscInit
  /\ SessInit
  /\ LifeInit
  /\ HistInit

\* lines 224-229: the customer (assistant) opens the conversation; in the
\* sessions that end by a disconnect the two speakers take turns
Speaker == IF events % 2 = 0 THEN "assistant" ELSE "user"

\* a transcript update of the session, the client still being connected
DiscSession ==
  /\ finalize = <<>>
  /\ PipeFrame(<< <<Speaker, <<"a">> >> >>)

DiscNext == DiscSession \/ PipeSteps \/ on_client_disconnected

\* the handlers of run_bot in a session that ends by the disconnect of the
\* client
DiscSpec == DiscRunBotInit /\ [][DiscNext]_vars

\* a coach, started or not, with any "Session Assessment" prompt
AssessInit ==
  /\ AggInit
  /\ api_key \in BOOLEAN
  /\ prompts_ok = TRUE
  /\ model_ready \in {api_key, FALSE}
  /\ ConversationStateInit
  /\ ParseIdle
  /\ RecInit
  /\ PipeInit
  /\ assessment_prompt \in AssessmentPrompts
  /\ DiscInit
  /\ SessInit
  /\ LifeInit
  /\ HistInit

AssessNext == generate_session_assessment

\* the coach asked for session assessments of any transcripts, one call
\* after the other
AssessSpec == AssessInit /\ [][AssessNext]_vars

SessNext ==
  \/ Tick
  \/ \E scenario \in Scenarios : SessionStarts(scenario)
  \/ \E i \in 1..Len(loggers), m \in RecMessages : SessionAppends(i, m[1], m[2])

\* sessions started at any times, each recording through its own recorder
SessSpec == AggOnlyInit /\ [][SessNext]_vars

CoachNext == start \/ ensure_started \/ CoachStop

\* a coach as constructed, with or without the key, driven by any sequence
\* of start, ensure_started and stop calls
CoachSpec == Init /\ [][CoachNext]_vars

AggHistNext ==
  \/ \E m \in HeardMessages : HistAdd(m[1], m[2])
  \/ HistFlush
  \/ reset

\* one aggregator given any messages, then flushed, then reset, with the
\* history of what it was given and what it returned
AggHistSpec == AggOnlyInit /\ [][AggHistNext]_vars

\* the handler that is running runs on
HandlerRuns == running # Idle /\ (PipeSteps \/ on_client_disconnected)

\* DiscSpec with the event loop running on: a handler that can run does,
\* and the timeout of a suspended handler's oracle call does come
DiscLiveSpec ==
  /\ DiscSpec
  /\ WF_vars(HandlerRuns)
  /\ WF_vars(\E h \in waiting : PipeTimesOut(h))
  /\ WF_vars(\E h \in waiting : DiscAssessTimesOut(h))

\* the handlers of run_bot driven by any sequence of transcript updates and
\* interim frames, a handler running from one await to the next
PipeSpec == RunBotInit /\ [][PipeNext]_vars

RecNext == append_transcript \/ append_coach_turn \/ snapshot_transcript

\* the logger driven by any sequence of its calls, file writes succeeding,
\* raising, or cut short by the death of the process
RecSpec == AggOnlyInit /\ [][RecNext]_vars

ParseSpec == ParseInit /\ [][ParseNext]_vars

\* ================================================================== claims
\* every character of s is whitespace
WhitespaceOnly(s) == \A i \in 1..Len(s) : s[i] \in WS

\* each maximal run of whitespace of s replaced by one space
RECURSIVE CollapseRuns(_)
CollapseRuns(s) ==
  IF s = <<>> THEN <<>>
  ELSE IF Head(s) \in WS THEN <<" ">> \o CollapseRuns(LStrip(s))
  ELSE <<Head(s)>> \o CollapseRuns(Tail(s))

Last(s) == s[Len(s)]

\* the fragments of the example of spec section 8, and the response expected
ExampleFragments ==
  <<
    <<"O", "k", "a", "y", ".">>,
    <<"I", " ", "u", "n", "d", "e", "r", "s", "t", "a", "n", "d", ".">>,
    <<"W", "h", "e", "n", " ", "d", "i", "d", " ", "y", "o", "u", " ", "f",
      "i", "r", "s", "t", " ", "n", "o", "t", "i", "c", "e", " ", "t", "h",
      "e", " ", "i", "s", "s", "u", "e", "?">>
  >>

ExampleResponse ==
  <<"O", "k", "a", "y", ".", " ", "I", " ", "u", "n", "d", "e", "r", "s",
    "t", "a", "n", "d", ".", " ", "W", "h", "e", "n", " ", "d", "i", "d",
    " ", "y", "o", "u", " ", "f", "i", "r", "s", "t", " ", "n", "o", "t",
    "i", "c", "e", " ", "t", "h", "e", " ", "i", "s", "s", "u", "e", "?">>

\* what lines 91-92 and lines 140-141 make of the example's fragments
ExampleByAddMessage == AddAggregated(ExampleFragments)
ExampleByFlush == FlushAggregated(ExampleFragments)

\* C1: every turn in completed_turns has a non-empty customer_prompt and at
\* least one representative fragment, and so has every pair returned: it is
\* the pair of the turn completed last, with a non-empty prompt and response.
C1_TurnsWellFormed ==
  /\ \A i \in 1..Len(completed_turns) :
       /\ completed_turns[i].customer_prompt # None
       /\ Len(completed_turns[i].customer_prompt) >= 1
       /\ Len(completed_turns[i].representative_responses) >= 1
  /\ ret # None =>
       /\ Len(ret[1]) >= 1
       /\ Len(ret[2]) >= 1
       /\ completed_turns # <<>>
       /\ ret[1] = Last(completed_turns).customer_prompt
       /\ ret[2] = get_aggregated_representative_response(Last(completed_turns))

\* C1 witness: add_message has just completed and returned a turn
C1_Witness ==
  /\ lastOp.op = "add_message"
  /\ ret # None
  /\ Len(completed_turns) >= 1

\* a message add_message does not skip as empty (line 83: neither empty
\* nor whitespace-only)
NonEmptyMessage(content) == content # <<>> /\ ~WhitespaceOnly(content)

\* C2: in every reachable state flush_pending_turn() returns exactly the
\* pair that add_message with a further non-empty customer ('assistant')
\* message would return there, and returns nothing exactly when that call
\* would return nothing.  Non-empty is what line 83 takes for non-empty: a
\* whitespace-only message is skipped as empty.
C2_FlushEqualsNextTrigger ==
  \A content \in Contents :
    NonEmptyMessage(content) =>
      /\ FlushReturns(pending_customer_prompt, pending_rep_fragments)
           = AddReturns(pending_customer_prompt, pending_rep_fragments,
                        "assistant", content)
      /\ (FlushReturns(pending_customer_prompt, pending_rep_fragments) = None)
           <=> (AddReturns(pending_customer_prompt, pending_rep_fragments,
                           "assistant", content) = None)

\* C2 witness: after an add_message call a prompt and a fragment with an
\* inner run of whitespace are pending, so flush_pending_turn returns a pair
C2_Witness ==
  /\ lastOp.op = "add_message"
  /\ FlushReturns(pending_customer_prompt, pending_rep_fragments) # None
  /\ \E i \in 1..Len(pending_rep_fragments) :
       pending_rep_fragments[i] # CollapseRuns(pending_rep_fragments[i])

\* the step is an add_message call with a customer message
CustomerStep == lastOp'.op = "add_message" /\ lastOp'.role = "assistant"

\* C3 as stated: a customer message arriving while a prompt and at least one
\* fragment are pending returns the completed turn, counts it, appends it,
\* makes the new message the pending prompt and leaves zero fragments, so
\* that flush_pending_turn() then returns nothing.
C3_CustomerCompletesTurn ==
  [][(CustomerStep /\ pending_customer_prompt # None
        /\ pending_rep_fragments # <<>>
        /\ NonEmptyMessage(lastOp'.content)) =>
       /\ ret' = <<pending_customer_prompt,
                   CollapseRuns(Join(<<" ">>, pending_rep_fragments))>>
       /\ turn_count' = turn_count + 1
       /\ completed_turns' =
            Append(completed_turns,
                   ConversationTurn(pending_customer_prompt, pending_rep_fragments))
       /\ pending_customer_prompt' = lastOp'.content
       /\ pending_rep_fragments' = <<>>
       /\ FlushReturns(pending_customer_prompt', pending_rep_fragments') = None
    ]_vars

\* C3 amended: the same, the pending prompt becoming the new message with
\* its leading and trailing whitespace stripped (the message being one that
\* add_message does not skip as empty or whitespace-only).
C3_AcceptedCustomerCompletesTurn ==
  [][(CustomerStep /\ pending_customer_prompt # None
        /\ pending_rep_fragments # <<>>
        /\ NonEmptyMessage(lastOp'.content)) =>
       /\ ret' = <<pending_customer_prompt,
                   CollapseRuns(Join(<<" ">>, pending_rep_fragments))>>
       /\ turn_count' = turn_count + 1
       /\ completed_turns' =
            Append(completed_turns,
                   ConversationTurn(pending_customer_prompt, pending_rep_fragments))
       /\ pending_customer_prompt' = Strip(lastOp'.content)
       /\ pending_rep_fragments' = <<>>
       /\ FlushReturns(pending_customer_prompt', pending_rep_fragments') = None
    ]_vars

\* C3 witness: a customer message with surrounding whitespace has completed
\* a turn of two fragments and is now the pending prompt, stripped
C3_Witness ==
  /\ lastOp.op = "add_message"
  /\ lastOp.role = "assistant"
  /\ ret # None
  /\ Len(Last(completed_turns).representative_responses) = 2
  /\ pending_customer_prompt = Strip(lastOp.content)
  /\ pending_customer_prompt # lastOp.content
  /\ pending_rep_fragments = <<>>

\* C4: the representative_response of every completed turn is its fragments
\* in arrival order joined by single spaces, every run of whitespace
\* collapsed to one space; the fragments of the example give its response.
C4_ResponseIsCollapsedJoin ==
  /\ \A i \in 1..Len(completed_turns) :
       get_aggregated_representative_response(completed_turns[i])
         = CollapseRuns(Join(<<" ">>, completed_turns[i].representative_responses))
  /\ ret # None =>
       ret[2] = CollapseRuns(Join(<<" ">>, Last(completed_turns).representative_responses))
  /\ ExampleByAddMessage = ExampleResponse
  /\ ExampleByFlush = ExampleResponse

\* C4 witness: a returned response in which a run of whitespace inside a
\* fragment was collapsed, built from two fragments
C4_Witness ==
  /\ ret # None
  /\ Len(Last(completed_turns).representative_responses) = 2
  /\ ret[2] # Join(<<" ">>, Last(completed_turns).representative_responses)

\* C5: add_message with empty or whitespace-only content, whatever the role
\* and the state, returns nothing and leaves the pending prompt, the pending
\* fragments, completed_turns and the turn counter unchanged.
C5_BlankContentIsNoOp ==
  [][(lastOp'.op = "add_message" /\ WhitespaceOnly(lastOp'.content)) =>
       /\ ret' = None
       /\ pending_customer_prompt' = pending_customer_prompt
       /\ pending_rep_fragments' = pending_rep_fragments
       /\ Len(pending_rep_fragments') = Len(pending_rep_fragments)
       /\ completed_turns' = completed_turns
       /\ turn_count' = turn_count
    ]_vars

\* C5 witness: a whitespace-only representative message arrived while a
\* prompt and a fragment were pending
C5_Witness ==
  /\ lastOp.op = "add_message"
  /\ lastOp.role = "user"
  /\ lastOp.content # <<>>
  /\ WhitespaceOnly(lastOp.content)
  /\ pending_customer_prompt # None
  /\ pending_rep_fragments # <<>>

\* no turn was built from a prompt that was overwritten unanswered
NoSupersededPromptInTurns ==
  \A i \in 1..Len(turnIds') : turnIds'[i] \notin superseded'

\* C6 as stated: a customer message arriving when no fragment has
\* accumulated overwrites the pending prompt with the new content, leaves
\* zero fragments, returns nothing and completes no turn; the superseded
\* prompt never appears in a completed turn.
C6_CustomerOverwritesPrompt ==
  [][/\ (CustomerStep /\ pending_rep_fragments = <<>>
           /\ NonEmptyMessage(lastOp'.content)) =>
          /\ pending_customer_prompt' = lastOp'.content
          /\ pending_rep_fragments' = <<>>
          /\ ret' = None
          /\ completed_turns' = completed_turns
          /\ turn_count' = turn_count
          /\ (pendingId # 0 => pendingId \in superseded')
     /\ NoSupersededPromptInTurns
    ]_vars

\* C6 amended: the same, the pending prompt becoming the new content with
\* its leading and trailing whitespace stripped (the message being one that
\* add_message does not skip as empty or whitespace-only).
C6_AcceptedCustomerOverwritesPrompt ==
  [][/\ (CustomerStep /\ pending_rep_fragments = <<>>
           /\ NonEmptyMessage(lastOp'.content)) =>
          /\ pending_customer_prompt' = Strip(lastOp'.content)
          /\ pending_rep_fragments' = <<>>
          /\ ret' = None
          /\ completed_turns' = completed_turns
          /\ turn_count' = turn_count
          /\ (pendingId # 0 => pendingId \in superseded')
     /\ NoSupersededPromptInTurns
    ]_vars

\* C6 witness: a second customer message has overwritten an unanswered
\* prompt, and a turn was completed before
C6_Witness ==
  /\ lastOp.op = "add_message"
  /\ lastOp.role = "assistant"
  /\ ret = None
  /\ superseded # {}
  /\ pendingId \notin superseded
  /\ pending_customer_prompt = Strip(lastOp.content)
  /\ pending_rep_fragments = <<>>

\* C7: a representative message arriving when no customer prompt is pending
\* returns nothing and leaves all aggregator state unchanged.
C7_ReplyWithoutPromptDropped ==
  [][(lastOp'.op = "add_message" /\ lastOp'.role = "user"
        /\ pending_customer_prompt = None) =>
       /\ ret' = None
       /\ pending_customer_prompt' = None
       /\ pending_rep_fragments' = pending_rep_fragments
       /\ pending_rep_fragments' = <<>>
       /\ completed_turns' = completed_turns
       /\ turn_count' = turn_count
    ]_vars

\* C7 witness: a representative message with text arrived after the pending
\* turn was flushed, so no prompt was pending
C7_Witness ==
  /\ lastOp.op = "add_message"
  /\ lastOp.role = "user"
  /\ NonEmptyMessage(lastOp.content)
  /\ pending_customer_prompt = None
  /\ completed_turns # <<>>

\* the step is an evaluate_turn call
CallStep == lastCall'.id # lastCall.id

\* the pair of the call of this step is, field for field, the last pair
\* recorded in the state
PairIsLastRecorded ==
  /\ lastCall'.customer_prompt = last_customer_message
  /\ lastCall'.representative_response = last_evaluated_rep_response

\* the step is the second of two evaluate_turn calls in a row with an
\* identical pair: the first was not itself a repetition, and it has ended
SecondOfTwoInARow ==
  /\ CallStep
  /\ lastCall.id # 0
  /\ ~lastCall.debounced
  /\ lastCall'.customer_prompt = lastCall.customer_prompt
  /\ lastCall'.representative_response = lastCall.representative_response
  /\ evalRet.call = lastCall.id
  /\ evalRet.kind # "pending"

\* C8: two evaluate_turn calls in a row with an identical pair yield one
\* non-null result followed by one null result; the second call makes no
\* oracle call, does not increment turn_index and appends no record.
C8_TwiceYieldsResultThenNull ==
  [][SecondOfTwoInARow =>
       /\ evalRet.kind = "result"
       /\ evalRet'.kind = "none"
       /\ oracleCalls' = oracleCalls
       /\ turn_index' = turn_index
       /\ evaluations' = evaluations
    ]_vars

\* C9: turn_index never decreases; an evaluate_turn call whose pair is not
\* the last pair recorded (an accepted call) increases it by exactly one, a
\* debounced call and every other step leave it as it is.
C9_TurnIndexCountsAccepted ==
  [][/\ turn_index' >= turn_index
     /\ (CallStep /\ ~PairIsLastRecorded) => turn_index' = turn_index + 1
     /\ (CallStep /\ PairIsLastRecorded) => turn_index' = turn_index
     /\ ~CallStep => turn_index' = turn_index
    ]_vars

\* C9 witness: an accepted call and then a debounced one were made
C9_Witness ==
  /\ callSeq = 2
  /\ lastCall.debounced
  /\ turn_index = 1

\* C10: when the oracle call of an evaluate_turn call times out, the call
\* returns a result whose raw_text is "Timeout" and whose parsed is null,
\* raises nothing, and the result is the record appended to
\* state.evaluations.
C10_TimeoutIsDegradedResult ==
  evalRet.oracle = "timeout" =>
    /\ evalRet.kind = "result"
    /\ evalRet.value.raw_text = TimeoutText
    /\ evalRet.value.parsed = None
    /\ evaluations # <<>>
    /\ Last(evaluations) = evalRet.value
    /\ evalRet.value.customer_message # None

\* C10 witness: a call has returned after its oracle call timed out
C10_Witness ==
  /\ evalRet.oracle = "timeout"
  /\ evalRet.kind = "result"
  /\ Len(evaluations) >= 1

\* the call that ended last returned a result with this raw_text and a null
\* parsed, and the result is the record appended last to state.evaluations
DegradedResult(raw_text) ==
  /\ evalRet.kind = "result"
  /\ evalRet.value.raw_text = raw_text
  /\ evalRet.value.parsed = None
  /\ evaluations # <<>>
  /\ Last(evaluations) = evalRet.value

\* C11: no evaluate_turn call raises to its caller; a call whose oracle call
\* raised another exception than a timeout, a call made while the evaluator
\* is not Ready and a call whose request could not be assembled each return
\* a result with the error description as raw_text and a null parsed, appended
\* to state.evaluations.
C11_FailureIsDegradedResult ==
  /\ evalRet.kind # "raised"
  /\ evalRet.oracle = "error" => DegradedResult(OracleErrorText)
  /\ (evalRet.kind = "result" /\ evalRet.oracle = "none") =>
       DegradedResult(NotReadyText)

\* C12: when the oracle flags its response as safety-filtered, the call
\* returns a result (it raises nothing) whose raw_text is the fixed sentinel
\* text and whose parsed is null, appended to state.evaluations.
C12_SafetyIsSentinelResult ==
  evalRet.oracle = "safety" => DegradedResult(SafetyText)

\* C12 witness: a call has returned after the oracle flagged its response
C12_Witness ==
  /\ evalRet.oracle = "safety"
  /\ evalRet.kind = "result"
  /\ evalRet.value.customer_message # None
  /\ Len(evaluations) >= 1

\* the positions of a character in a text
Positions(text, ch) == {i \in 1..Len(text) : text[i] = ch}

Least(S) == CHOOSE i \in S : \A j \in S : i <= j
Greatest(S) == CHOOSE i \in S : \A j \in S : i >= j

\* the text has both braces
HasBraces(text) == Positions(text, "{") # {} /\ Positions(text, "}") # {}

\* the substring from the first opening brace to the last closing brace
BraceSpan(text) ==
  SubSeq(text, Least(Positions(text, "{")), Greatest(Positions(text, "}")))

\* C13: the parse of an oracle text is the strict parse of the whole text
\* when that succeeds; otherwise the strict parse of the substring from the
\* first '{' to the last '}' when there is one and it parses; otherwise null,
\* and then the result keeps the full text as raw_text.  The example text
\* with commentary around one object parses to that object.
C13_TwoStageParse ==
  parse_ret.called =>
    LET whole == json_loads(parse_text)
        inner == IF HasBraces(parse_text)
                 THEN json_loads(BraceSpan(parse_text))
                 ELSE NoParse
    IN  /\ whole.ok => parse_ret.parsed = whole.val
        /\ (~whole.ok /\ inner.ok) => parse_ret.parsed = inner.val
        /\ (~whole.ok /\ ~inner.ok) => parse_ret.parsed = None
        /\ parse_ret.parsed = None =>
             (parse_ret.result = None /\ parse_ret.raw_text = parse_text)
        /\ parse_text = SureText =>
             /\ parse_ret.parsed = SureObject
             /\ parse_ret.result = SureObject
             /\ parse_ret.raw_text = SureText

\* C13 witness: the example text was parsed in the second stage
C13_Witness ==
  /\ parse_ret.called
  /\ parse_text = SureText
  /\ ~json_loads(parse_text).ok
  /\ parse_ret.parsed = SureObject

\* the text holds no brace character at all
BraceFree(text) == Positions(text, "{") = {} /\ Positions(text, "}") = {}

\* C14: when the oracle answers with a text that holds no brace character,
\* the result of the call has a null parsed and the oracle's text, verbatim,
\* as raw_text.
C14_BraceFreeTextIsKeptUnparsed ==
  [][\A call \in inflight, outcome \in OracleOutcomes :
       (outcome.kind = "text" /\ BraceFree(outcome.text)
          /\ EvalResume(call, outcome)) =>
         /\ evalRet'.kind = "result"
         /\ evalRet'.value.parsed = None
         /\ evalRet'.value.raw_text = outcome.text
    ]_vars

\* C15: the parsed field of every result in state.evaluations, and of the
\* result returned last, is null or a JSON object, never a number or a string.
C15_ParsedIsNullOrObject ==
  /\ \A i \in 1..Len(evaluations) :
       evaluations[i].parsed = None \/ IsDict(evaluations[i].parsed)
  /\ evalRet.kind = "result" =>
       (evalRet.value.parsed = None \/ IsDict(evalRet.value.parsed))

\* the step is an append_transcript call that returned (no file write of
\* it raised, and the process did not die in it)
AppendReturned ==
  /\ Len(arrivals') = Len(arrivals) + 1
  /\ recOp'.ending = "returned"

\* C18: an append_transcript call that returns has appended the entry,
\* flagged with is_interim, to the interim-inclusive log; when is_interim is
\* false it has also appended the entry to the final-only log, and both
\* files hold the logs as they are now; when is_interim is true the
\* final-only log and its file are as they were.
C18_AppendRoutesByFlag ==
  [][AppendReturned =>
       LET call == Last(arrivals')
           flagged == [ts |-> call.entry.ts, role |-> call.entry.role,
                       content |-> call.entry.content,
                       is_interim |-> call.is_interim]
       IN  /\ interim_transcript' = Append(interim_transcript, flagged)
           /\ interim_file' = Complete(interim_transcript')
           /\ call.is_interim =>
                /\ transcript' = transcript
                /\ transcript_file' = transcript_file
           /\ ~call.is_interim =>
                /\ transcript' = Append(transcript, call.entry)
                /\ transcript_file' = Complete(transcript')
    ]_vars

\* C18 witness: a final entry and then an interim entry were appended, both
\* calls returning
C18_Witness ==
  /\ recOp = RecOp("append_transcript", TRUE, "returned")
  /\ Len(arrivals) = 2
  /\ ~arrivals[1].is_interim
  /\ Len(interim_transcript) = 2
  /\ Len(transcript) = 1

\* the entries of the calls made with is_interim false, in arrival order
RECURSIVE FinalArrivals(_)
FinalArrivals(calls) ==
  IF calls = <<>> THEN <<>>
  ELSE IF Head(calls).is_interim THEN FinalArrivals(Tail(calls))
  ELSE <<Head(calls).entry>> \o FinalArrivals(Tail(calls))

\* C19: after any sequence of append_transcript calls,
\* get_transcript_for_assessment() is exactly the entries appended with
\* is_interim false, in arrival order; no interim entry is among them.
C19_AssessmentViewIsFinalsInOrder ==
  get_transcript_for_assessment = FinalArrivals(arrivals)

\* C19 witness: a final, an interim and a final entry were appended
C19_Witness ==
  /\ Len(arrivals) = 3
  /\ ~arrivals[1].is_interim
  /\ arrivals[2].is_interim
  /\ ~arrivals[3].is_interim
  /\ Len(get_transcript_for_assessment) = 2

\* the list starts with the entries
IsPrefix(entries, list) ==
  Len(entries) <= Len(list) /\ entries = SubSeq(list, 1, Len(entries))

\* what is on disk is a complete JSON array of a snapshot of the list
CommittedSnapshot(file, list) ==
  file.state = "complete" /\ IsPrefix(file.entries, list)

\* C20: at every instant, the death of the process in the middle of a file
\* write included, each log file that exists holds the complete JSON array
\* of a snapshot of its log; none is empty or truncated.
C20_FilesAreCommittedSnapshots ==
  /\ transcript_file # Absent => CommittedSnapshot(transcript_file, transcript)
  /\ interim_file # Absent => CommittedSnapshot(interim_file, interim_transcript)
  /\ per_turn_file # Absent => CommittedSnapshot(per_turn_file, coach_turns)

\* the event the running handler is at is in both logs as their last entry,
\* with its role and content and as a final entry, and both files hold the
\* logs as they are
EventPersisted ==
  /\ running.event \in recorded
  /\ transcript # <<>>
  /\ Last(transcript).role = Head(running.msgs)[1]
  /\ Last(transcript).content = Head(running.msgs)[2]
  /\ transcript_file = Complete(transcript)
  /\ interim_transcript # <<>>
  /\ Last(interim_transcript) =
       [ts |-> Last(transcript).ts, role |-> Last(transcript).role,
        content |-> Last(transcript).content, is_interim |-> FALSE]
  /\ interim_file = Complete(interim_transcript)

\* C16: whenever a step of on_transcript_update hands a message to the
\* aggregator (any step that changes the aggregator or leaves line 243) or
\* makes it trigger an evaluation (ensure_started, evaluate_turn), that
\* message has been appended to the recorder and both log files hold it.
C16_RecordedBeforeAggregated ==
  [][(\/ aggVars' # aggVars
      \/ callSeq' # callSeq
      \/ (running.pc \in {"aggregate", "ensure", "evaluate"} /\ running' # running))
       => EventPersisted
    ]_vars

\* C16 witness: the third final event has been recorded and aggregated and
\* its turn is about to be evaluated
C16_Witness ==
  /\ running.pc = "evaluate"
  /\ running.event \in recorded
  /\ Len(transcript) >= 3
  /\ lastOp.op = "add_message"
  /\ ret # None

\* C17: once the handlers have dealt with every result evaluate_turn has
\* returned (none is running), the per-turn log holds one record for each
\* result in state.evaluations, in order and for the same pair, whether its
\* parsed is null or not.
C17_EveryResultIsLogged ==
  (running = Idle /\ ~crashed) =>
    /\ Len(coach_turns) = Len(evaluations)
    /\ \A i \in 1..Len(coach_turns) :
         /\ coach_turns[i].interaction.customer = evaluations[i].customer_message
         /\ coach_turns[i].interaction.representative
              = evaluations[i].representative_response

\* C21: an append whose file write raises ends by raising, with its entry
\* kept in the log's in-memory list: the list only ever grows by the new
\* entry, a file left behind its list is never the file of a call that
\* returned, and an append to a log that returns leaves that log's file the
\* complete array of its list, the entries whose own write raised included.
C21_FailedWriteIsRewritten ==
  [][ /\ Len(transcript') > Len(transcript) =>
           /\ transcript' = Append(transcript, Last(arrivals').entry)
           /\ (transcript_file' # Complete(transcript') /\ ~crashed')
                => recOp'.ending = "raised"
           /\ recOp'.ending = "returned" =>
                /\ transcript_file' = Complete(transcript')
                /\ transcript_file'.entries = FinalArrivals(arrivals')
      /\ Len(interim_transcript') > Len(interim_transcript) =>
           /\ interim_transcript' =
                Append(interim_transcript,
                       InterimEntry(Last(arrivals').entry, Last(arrivals').is_interim))
           /\ (interim_file' # Complete(interim_transcript') /\ ~crashed')
                => recOp'.ending = "raised"
           /\ recOp'.ending = "returned" =>
                interim_file' = Complete(interim_transcript')
      /\ Len(coach_turns') > Len(coach_turns) =>
           /\ SubSeq(coach_turns', 1, Len(coach_turns)) = coach_turns
           /\ (per_turn_file' # Complete(coach_turns') /\ ~crashed')
                => recOp'.ending = "raised"
           /\ recOp'.ending = "returned" =>
                per_turn_file' = Complete(coach_turns')
    ]_vars

\* C21 witness: the file write of the first final append raised (its entry
\* never reached the interim-inclusive log), the second final append
\* returned, and the final file holds both entries
C21_Witness ==
  /\ recOp = RecOp("append_transcript", FALSE, "returned")
  /\ Len(transcript) = 2
  /\ Len(interim_transcript) = 1
  /\ transcript[1].ts = 1
  /\ interim_transcript[1].ts = 2
  /\ transcript_file = Complete(transcript)

\* C22: while an evaluation is in flight no finalized event that was handed
\* to the handlers is held back behind it: a handler suspended at the await
\* of evaluate_turn has no later message of its transcript update left to
\* record and aggregate.
C22_NothingWaitsForTheOracle ==
  \A h \in waiting : Len(h.msgs) <= 1

\* the evaluate_turn call numbered i awaits the oracle
AwaitsOracle(i) == \E call \in inflight : call.id = i

\* C23: every evaluate_turn call that awaits the oracle eventually stops
\* awaiting it, and a call stops awaiting only by returning a result that is
\* appended to state.evaluations; when it is the timeout that ends the wait,
\* the result is the degraded one (raw_text "Timeout", parsed null).
C23_EveryCallReturns ==
  /\ \A i \in 1..MaxEvalCalls : AwaitsOracle(i) ~> ~AwaitsOracle(i)
  /\ [][\A call \in inflight :
          call \notin inflight' =>
            /\ evalRet'.call = call.id
            /\ evalRet'.kind = "result"
            /\ evaluations' = Append(evaluations, evalRet'.value)
            /\ evalRet'.oracle = "timeout" =>
                 /\ evalRet'.value.raw_text = TimeoutText
                 /\ evalRet'.value.parsed = None
     ]_vars

\* C23 witness: two calls awaited the oracle at once and both have returned,
\* the second by its timeout
C23_Witness ==
  /\ callSeq = 2
  /\ oracleCalls = 2
  /\ inflight = {}
  /\ Len(evaluations) = 2
  /\ evalRet.call = 2
  /\ evalRet.kind = "result"
  /\ evalRet.oracle = "timeout"

\* the names of the finalize steps begun so far, in the order they began
StepNames == [i \in 1..Len(finalize) |-> finalize[i].step]

\* C24: the finalize steps of on_client_disconnected begin in the order
\* flush, evaluate, snapshot, assess, the evaluation being there exactly
\* when the flush returned a turn, and a step begins only when the step
\* before it has ended.
C24_FinalizeInOrder ==
  /\ \/ IsPrefix(StepNames, <<"flush", "evaluate", "snapshot", "assess">>)
     \/ IsPrefix(StepNames, <<"flush", "snapshot", "assess">>)
  /\ \A i \in 1..Len(finalize) - 1 : finalize[i].ending # "open"
  /\ Len(finalize) >= 2 =>
       (finalize[2].step = "evaluate" <=> (lastOp = FlushOp /\ ret # None))

\* C24 witness: the handler has flushed a turn, evaluated it, written the
\* snapshot and the assessment of the oracle, and cancelled the task
C24_Witness ==
  /\ cancelled
  /\ StepNames = <<"flush", "evaluate", "snapshot", "assess">>
  /\ \A i \in 1..4 : finalize[i].ending = "done"
  /\ Len(evaluations) >= 1
  /\ transcript_file = Complete(transcript)
  /\ session_eval_file = Complete(AssessmentText)

\* the finalize step of this name was begun
Began(name) == \E i \in 1..Len(finalize) : finalize[i].step = name

\* C25: when on_client_disconnected has ended, the transcript snapshot and
\* the session assessment have both been run, and so has the evaluation of
\* a turn that the flush returned, however the steps before them ended.
C25_FailuresAreContained ==
  cancelled =>
    /\ Began("flush")
    /\ (lastOp = FlushOp /\ ret # None) => Began("evaluate")
    /\ Began("snapshot")
    /\ Began("assess")

\* C26: once on_client_disconnected has started, task.cancel() is eventually
\* called, whatever the finalize steps do: returning, raising, or ending by
\* the timeout of an oracle that never answers.
C26_ShutdownIsNeverBlocked ==
  (finalize # <<>>) ~> cancelled

\* C26 witness: the task was cancelled after the oracle had answered neither
\* the final evaluation nor the assessment
C26_Witness ==
  /\ cancelled
  /\ Began("evaluate")
  /\ evalRet.kind = "result"
  /\ evalRet.oracle = "timeout"
  /\ assessment.oracle = "timeout"
  /\ assessment.markdown = AssessmentTimeoutText

\* text begins with these characters
StartsWith(text, prefix) ==
  Len(text) >= Len(prefix) /\ SubSeq(text, 1, Len(prefix)) = prefix

\* the four fallbacks of generate_session_assessment for the four causes
AssessmentFallbacks ==
  <<NoTranscriptText, NoConfigurationText, AssessmentTimeoutText, AssessmentFailedText>>

\* C27: a generate_session_assessment call that has ended has returned, not
\* raised: the no-transcript fallback for an empty transcript, else the
\* no-configuration fallback when the prompt is missing, the timeout
\* fallback when the oracle call timed out, and a text beginning with the
\* failure fallback when the prompt cannot be used, the coach is not ready,
\* or the oracle call raised; and no two of the four fallbacks are the same
\* text or begin one with the other.
C27_AssessmentNeverRaises ==
  /\ assessment.ended \in {"none", "awaiting", "returned"}
  /\ assessment.ended = "returned" =>
       /\ assessment.entries = <<>> => assessment.markdown = NoTranscriptText
       /\ (assessment.entries # <<>> /\ assessment_prompt = "missing")
            => assessment.markdown = NoConfigurationText
       /\ assessment.oracle = "timeout" => assessment.markdown = AssessmentTimeoutText
       /\ assessment.oracle \in {"error", "blocked"}
            => StartsWith(assessment.markdown, AssessmentFailedText)
       /\ (assessment.entries # <<>> /\ assessment_prompt = "malformed")
            => StartsWith(assessment.markdown, AssessmentFailedText)
       /\ (assessment.entries # <<>> /\ assessment_prompt = "ok" /\ ~model_ready)
            => StartsWith(assessment.markdown, AssessmentFailedText)
  /\ \A i, j \in 1..4 :
       i # j => ~StartsWith(AssessmentFallbacks[i], AssessmentFallbacks[j])

\* C28: two recorders of distinct sessions never share a file path, and
\* the transcript file of a session that has recorded something holds that
\* session's transcript, whatever the other sessions have recorded since.
C28_SessionsShareNoFile ==
  \A i, j \in 1..Len(loggers) :
    i # j =>
      /\ PathsOf(loggers[i]) \cap PathsOf(loggers[j]) = {}
      /\ loggers[i]._transcript # <<>>
           => disk[loggers[i]._transcript_path] = Complete(loggers[i]._transcript)

\* C29: a step that records an interim transcription event appends it to
\* the interim-inclusive log with is_interim true, leaves the final log
\* alone and hands nothing to the aggregator; and whenever something is
\* handed to the aggregator, it is the message that on_transcript_update has
\* just recorded with is_interim false.
C29_OnlyFinalTextIsAggregated ==
  [][ /\ (Len(arrivals') = Len(arrivals) + 1 /\ Last(arrivals').is_interim)
           => /\ UNCHANGED aggVars
              /\ UNCHANGED transcript
              /\ Last(interim_transcript').is_interim
              /\ Last(interim_transcript').content = Last(arrivals').entry.content
      /\ (aggVars' # aggVars)
           => /\ running.pc = "aggregate"
              /\ arrivals # <<>>
              /\ ~Last(arrivals).is_interim
              /\ Last(arrivals).entry.role = Head(running.msgs)[1]
              /\ Last(arrivals).entry.content = Head(running.msgs)[2]
              /\ Last(transcript).content = Head(running.msgs)[2]
    ]_vars

\* an interim event was recorded while the aggregator was accumulating the
\* fragments of a response, and a final fragment was aggregated after it
C29_Witness ==
  /\ \E i \in 1..Len(arrivals) :
       /\ arrivals[i].is_interim
       /\ \E j \in (i + 1)..Len(arrivals) :
            ~arrivals[j].is_interim /\ arrivals[j].entry.role = "user"
  /\ Len(pending_rep_fragments) = 1
  /\ Len(interim_transcript) > Len(transcript) + 1
  /\ running = Idle

\* C30: every add_message and flush_pending_turn call leaves the turns
\* completed before it where and as they were, prompt and fragment list
\* alike: completed_turns before the call is a prefix of completed_turns
\* after it, and it grows by at most the one turn the call completes.
C30_CompletedTurnsAppendOnly ==
  [][ /\ IsPrefix(completed_turns, completed_turns')
      /\ Len(completed_turns') <= Len(completed_turns) + 1
      /\ \A i \in 1..Len(completed_turns) :
           /\ completed_turns'[i].customer_prompt = completed_turns[i].customer_prompt
           /\ completed_turns'[i].representative_responses
                = completed_turns[i].representative_responses
    ]_vars

\* a turn was completed by add_message, a fragment of the next response was
\* accumulated after it, and flush_pending_turn completed the second turn
\* from it
C30_Witness ==
  /\ Len(completed_turns) = 2
  /\ lastOp = FlushOp
  /\ ret # None
  /\ Len(completed_turns[1].representative_responses) = 1
  /\ Len(completed_turns[2].representative_responses) = 1

\* what start() does in this state (coach.py lines 87-94): how it ends, and
\* self._model after it
StartEffect ==
  IF api_key
  THEN [ending |-> "returned", ready |-> TRUE, client |-> clients + 1]
  ELSE [ending |-> "raised", ready |-> model_ready, client |-> client]

\* C31: an ensure_started() call on a Ready coach returns and leaves the
\* oracle client, and everything else of the coach, as it was; an
\* ensure_started() call on a coach that is not Ready ends as start() would
\* end there and leaves the oracle client that start() would leave.
C31_EnsureStartedIdempotent ==
  [][ (Len(coachOps') = Len(coachOps) + 1 /\ Last(coachOps').op = "ensure_started")
        => IF model_ready
           THEN /\ Last(coachOps').ending = "returned"
                /\ client' = client
                /\ clients' = clients
                /\ UNCHANGED evalVars
           ELSE /\ Last(coachOps').ending = StartEffect.ending
                /\ model_ready' = StartEffect.ready
                /\ client' = StartEffect.client
    ]_vars

\* ensure_started() was called on a coach that was not Ready and made it
\* Ready, and was then called twice more
C31_Witness ==
  /\ Len(coachOps) = 3
  /\ \A i \in 1..3 : coachOps[i] = CoachOp("ensure_started", "returned")
  /\ model_ready
  /\ client = 1
  /\ clients = 1

\* the handler hands to evaluate_turn a completed turn whose texts are those
\* of the pair evaluated last
RepeatedTurnIsEvaluated ==
  /\ running.pc = "evaluate"
  /\ running' # running
  /\ last_customer_message = running.cp
  /\ last_evaluated_rep_response = running.rr

C33_SequentialNumbering ==
  [][ /\ IsPrefix(evaluations, evaluations')
      /\ inflight' = {}
           => /\ turn_index' = Len(evaluations')
              /\ \A i \in 1..Len(evaluations') : evaluations'[i].turn_number = i
    ]_vars

\* C34: with evaluate_turn calls that overlap, each result carries the
\* turn_index its call was given when it was accepted, so that no two
\* results in state.evaluations have the same turn_number.
C34_TurnNumbersAreDistinct ==
  \A i, j \in 1..Len(evaluations) :
    i # j => evaluations[i].turn_number # evaluations[j].turn_number

\* a message add_message takes up: one it does not skip as empty, spoken by
\* the customer or by the representative
TakenUp(m) == NonEmptyMessage(m[2]) /\ m[1] \in {"assistant", "user"}

\* the messages heard that add_message takes up, in order
Spoken == SelectSeq(heard, TakenUp)

\* where the run of representative messages ending at position i of the
\* spoken messages begins
RunStart(i) ==
  CHOOSE j \in 1..i :
    /\ \A k \in j..i : Spoken[k][1] = "user"
    /\ j = 1 \/ Spoken[j - 1][1] = "assistant"

\* the positions where a maximal run of accepted representative fragments
\* ends: a representative message that is the last spoken or is followed by
\* a customer message, the run having a customer message before it
RunEnds ==
  { i \in 1..Len(Spoken) :
      /\ Spoken[i][1] = "user"
      /\ i = Len(Spoken) \/ Spoken[i + 1][1] = "assistant"
      /\ RunStart(i) > 1 }

\* the turn of the run ending at i: the customer message before the run and
\* the fragments of the run, as the aggregator stores texts (stripped)
TurnOfRun(i) ==
  ConversationTurn(Strip(Spoken[RunStart(i) - 1][2]),
                   [k \in 1..(i - RunStart(i) + 1) |->
                      Strip(Spoken[RunStart(i) + k - 1][2])])

\* the turns of these runs, in the order of the runs
TurnsOfRuns(ends) ==
  [n \in 1..Cardinality(ends) |->
     TurnOfRun(CHOOSE i \in ends : Cardinality({j \in ends : j <= i}) = n)]

\* the pair returned for a turn
PairOf(turn) ==
  <<turn.customer_prompt, get_aggregated_representative_response(turn)>>

\* C35: after any sequence of add_message calls followed by
\* flush_pending_turn, the completed turns are exactly, in order, one per
\* maximal run of accepted representative fragments, each the customer
\* message before the run with the run's fragments in arrival order, and
\* the pairs returned are the pairs of these turns; before the flush the
\* completed turns are those of the runs a customer message has closed and
\* the pending fragments are those of the run still open.
C35_TurnsAreTheRuns ==
  /\ lastOp = FlushOp
       => /\ completed_turns = TurnsOfRuns(RunEnds)
          /\ pending_rep_fragments = <<>>
  /\ lastOp.op = "add_message"
       => /\ completed_turns = TurnsOfRuns(RunEnds \ {Len(Spoken)})
          /\ Len(Spoken) \in RunEnds
               => pending_rep_fragments = TurnOfRun(Len(Spoken)).representative_responses
          /\ Len(Spoken) \notin RunEnds => pending_rep_fragments = <<>>
  /\ emitted = [n \in 1..Len(completed_turns) |-> PairOf(completed_turns[n])]

\* two runs were heard, the first of two fragments and closed by a customer
\* message, the second closed by the flush
C35_Witness ==
  /\ lastOp = FlushOp
  /\ Len(heard) = MaxHeard
  /\ Len(completed_turns) = 2
  /\ Len(completed_turns[1].representative_responses) = 2
  /\ Len(emitted) = 2

\* C36: in every reachable aggregator state, after reset() too, the turn
\* counter equals the length of completed_turns and the number of pairs
\* returned by add_message and flush_pending_turn since the construction or
\* the last reset.
C36_TurnCountIsTurnsCompleted ==
  /\ turn_count = Len(completed_turns)
  /\ turn_count = Len(emitted)

\* the aggregator was reset, and has completed two turns since
C36_Witness ==
  /\ was_reset
  /\ turn_count = 2
  /\ Len(completed_turns) = 2
  /\ Len(emitted) = 2
  /\ lastOp = FlushOp

\* the entries of the interim-inclusive log that are not interim, in order,
\* as entries of the final log (ts, role, content)
RECURSIVE FinalsOf(_)
FinalsOf(log) ==
  IF log = <<>> THEN <<>>
  ELSE IF Head(log).is_interim THEN FinalsOf(Tail(log))
  ELSE <<TranscriptEntry(Head(log).ts, Head(log).role, Head(log).content)>>
         \o FinalsOf(Tail(log))

\* C37: at every point, also after an append_transcript call whose file
\* write raised an I/O error, the final-only log is the interim-inclusive
\* log restricted to its entries with is_interim false, in the same order
\* and with the same timestamps.
C37_FinalLogIsInterimLogFinals ==
  ~crashed => transcript = FinalsOf(interim_transcript)

\* the call that ended last returned a degraded result: its oracle call
\* timed out or raised
EndedDegraded ==
  /\ evalRet.kind = "result"
  /\ evalRet.oracle \in {"timeout", "error"}
  /\ evalRet.value.parsed = None

\* C38: an evaluate_turn call made right after a call with the same pair
\* has ended degraded (timeout or error) returns None: the oracle is not
\* called again, no result is appended, turn_index stays, and the degraded
\* result remains the only record of the turn.
C38_DegradedTurnIsNotRetried ==
  [][ (SecondOfTwoInARow /\ EndedDegraded)
        => /\ PairIsLastRecorded
           /\ lastCall'.debounced
           /\ evalRet'.kind = "none"
           /\ UNCHANGED <<oracleCalls, evaluations, turn_index, inflight>>
           /\ Last(evaluations').parsed = None
    ]_vars

\* a call timed out, and the same pair handed in again was debounced
C38_Witness ==
  /\ lastCall.debounced
  /\ evalRet.kind = "none"
  /\ oracleCalls = 1
  /\ Len(evaluations) = 1
  /\ evaluations[1].raw_text = TimeoutText
  /\ evaluations[1].customer_message = lastCall.customer_prompt
  /\ evaluations[1].representative_response = lastCall.representative_response
  /\ inflight = {}

\* the step is a call of this lifecycle method of the coach
CoachCall(op) == Len(coachOps') = Len(coachOps) + 1 /\ Last(coachOps').op = op

\* C39: a stop() call returns without raising from any state and leaves the
\* coach not Ready with no oracle client, as a newly constructed coach is,
\* and nothing else of the coach changed; an ensure_started() call on a
\* coach that is not Ready, stopped or never started alike, with the key
\* present makes it Ready with a new client.
C39_StoppedIsUninitialized ==
  [][ /\ CoachCall("stop")
           => /\ Last(coachOps').ending = "returned"
              /\ ~model_ready'
              /\ client' = 0
              /\ UNCHANGED <<api_key, prompts_ok, last_customer_message,
                             last_evaluated_rep_response, turn_index, evaluations,
                             inflight, clients>>
      /\ (CoachCall("ensure_started") /\ ~model_ready /\ api_key)
           => /\ Last(coachOps').ending = "returned"
              /\ model_ready'
              /\ client' = clients'
              /\ client' > 0
    ]_vars

\* a Ready coach was stopped, stopped again, and made Ready again by
\* ensure_started()
C39_Witness ==
  /\ Len(coachOps) = 4
  /\ coachOps[1].op = "start"
  /\ coachOps[2].op = "stop"
  /\ coachOps[3].op = "stop"
  /\ coachOps[4] = CoachOp("ensure_started", "returned")
  /\ model_ready
  /\ client = 2

====
